---- MODULE Spec2Model ----
(***************************************************************************)
(* BB84 key-distribution backend (app.py, alice.py, bob.py, randomkey.py). *)
(*                                                                         *)
(* Python lists are sequences; the Python index i is position i + 1.       *)
(* An attribute that may be None is a wrapped value: None is <<>>, the     *)
(* list l is <<l>>.  A response is a record whose field op names the       *)
(* handler and whose field status is the HTTP status (500 for an exception *)
(* no handler catches).  Random draws are nondeterministic choices.        *)
(*                                                                         *)
(* app.py calls alice.prepare_quantum_states(length) with one argument     *)
(* while alice.py declares (length, special_pattern); the model gives the  *)
(* call the all-zero pattern, under which the mask changes nothing.        *)
(* Alice.__init__ does not create shared_key; the model starts it at None. *)
(* A float (the QBER, a rate) is an exact rational.                        *)
(***************************************************************************)
EXTENDS Integers, Sequences, FiniteSets, TLC

VARIABLES
    raw_bits,        \* alice.raw_bits: None or a list of bits
    bases,           \* alice.bases: None or a list of bases
    encoded_qubits,  \* alice.encoded_qubits: None or a list of prepared states
    shared_key,      \* alice.shared_key: None or a list of bits
    bob_bases,       \* bob.bob_bases
    measured_bits,   \* bob.measured_bits
    sifted_key,      \* bob.sifted_key
    noise_config,    \* the global noise_config of app.py
    req,             \* the request a one-call specification serves
    resp,            \* the last response sent
    stage,           \* history: the lifecycle stage the session has reached
    script,          \* the responses a client script has kept (test_flow.py)
    threads          \* the requests that threads of the server are serving

vars == <<raw_bits, bases, encoded_qubits, shared_key,
          bob_bases, measured_bits, sifted_key, noise_config, req, resp,
          stage, script, threads>>

aliceVars == <<raw_bits, bases, encoded_qubits, shared_key>>
bobVars == <<bob_bases, measured_bits, sifted_key>>

-----------------------------------------------------------------------------
(* Bounds *)

\* Call-sequence specification: longest key a generate request asks for.
SeqLen == 1
\* One-call specification of the verification handlers: longest raw key and
\* largest index value in a payload.
MaxLen == 2
\* Sifting: longest basis sequence.
MaxBases == 3
\* Sampling: longest sifted key.
MaxSifted == 4
\* SpecLife: the longest list a step of the session carries
LifeLen == 1
\* Sampling: the longest sifted key whose sample size is checked
MaxKeyLen == 19
\* SpecChannel: the most descriptions one transmission carries
ChanLen == 2
\* SpecFlow: the longest key the local flow generates
FlowLen == 3
\* Longest key of the generation and basis-disclosure scenario.
GenLen == 3
\* SpecConfig: the longest list a request carries.
CfgLen == 1
\* SpecBody: the longest list a request body carries.
BodyLen == 2
\* SpecThreads: the longest key of the session a pipeline run transmits.
RunLen == 1
\* SpecRelay: the longest key of the session whose stream is read.
RelayLen == 2

-----------------------------------------------------------------------------
(* Values *)

Bit == {0, 1}

BitSeqs(n) == UNION {[1..k -> Bit] : k \in 0..n}

BitSeqsOfLen(n) == [1..n -> Bit]

None == <<>>

Some(x) == <<x>>

IsNone(o) == o = <<>>

Get(o) == o[1]

\* Python truthiness of an attribute holding None or a list.
Truthy(o) == ~IsNone(o) /\ Len(o[1]) > 0

Min(a, b) == IF a <= b THEN a ELSE b

Max(a, b) == IF a >= b THEN a ELSE b

RECURSIVE SortedSeq(_)
\* sorted(S) for a set of integers.
SortedSeq(S) ==
    IF S = {} THEN <<>>
    ELSE LET m == CHOOSE x \in S : \A y \in S : x <= y
         IN  <<m>> \o SortedSeq(S \ {m})

\* The ascending lists of distinct integers of lo..hi.
SortedLists(lo, hi) == {SortedSeq(S) : S \in SUBSET (lo..hi)}

Range(s) == {s[k] : k \in 1..Len(s)}

\* l[i] raises IndexError unless -len(l) <= i < len(l).
PyInRange(l, i) == -Len(l) <= i /\ i < Len(l)

\* l[i], negative i counting from the end.
PyAt(l, i) == IF i >= 0 THEN l[i + 1] ELSE l[Len(l) + i + 1]

RECURSIVE Gcd(_, _)
Gcd(a, b) == IF b = 0 THEN a ELSE Gcd(b, a % b)

\* The rational n/d, d > 0, in lowest terms.
Ratio(n, d) == LET g == Gcd(n, d) IN <<n \div g, d \div g>>

NoReq == [op |-> "none"]

NoResp == [op |-> "none", status |-> 0]

\* A script that has not called anything yet.
NoScript == <<>>

\* No request is being served step by step.
NoThreads == <<>>

Error(o, code, msg) == [op |-> o, status |-> code, error |-> msg]

-----------------------------------------------------------------------------
(* randomkey.py, alice.py *)

\* The state one (masked bit, basis) pair is encoded into.
EncodeQubit(bit, basis) ==
    IF basis = 0
    THEN (IF bit = 1 THEN "1" ELSE "0")
    ELSE (IF bit = 0 THEN "+" ELSE "-")

Choices_OneMore(length, stream) ==
    [i \in 1..(Max(length, 0) + 1) |-> IF i <= Len(stream) THEN stream[i] ELSE 0]

\* [secrets.choice([0, 1]) for _ in range(length)] on the outcomes stream of the
\* random source: one outcome per element of range(length).
Choices(length, stream) == [i \in 1..Max(length, 0) |-> stream[i]]

\* generate_masked_key, given the bits and bases it drew.
generate_masked_key(length, special_pattern, alice_bits, alice_bases) ==
    LET masked_bits ==
            [i \in 1..Min(Len(alice_bits), Len(special_pattern)) |->
                (alice_bits[i] + special_pattern[i]) % 2]
    IN  <<alice_bits, alice_bases,
          [i \in 1..Max(length, 0) |-> EncodeQubit(masked_bits[i], alice_bases[i])]>>

\* Alice.prepare_quantum_states: the three attributes are assigned together.
prepare_quantum_states(length, special_pattern, alice_bits, alice_bases) ==
    LET r == generate_masked_key(length, special_pattern, alice_bits, alice_bases)
    IN  /\ raw_bits' = Some(r[1])
        /\ bases' = Some(r[2])
        /\ encoded_qubits' = Some(r[3])

ZeroPattern_Ones(length) == [i \in 1..Max(length, 0) |-> 1]

ZeroPattern(length) == [i \in 1..Max(length, 0) |-> 0]

-----------------------------------------------------------------------------
(* bob.py: sampling *)

\* SampleSize, rounding total_len * 0.3 to the nearest integer.
SampleSize_Rounds(total_len) ==
    IF total_len < 10
    THEN Max(1, total_len \div 2)
    ELSE Max(5, (total_len * 3 + 5) \div 10)

\* sample_size of sample_for_verification, percentage = 0.3:
\* int(total_len * 0.3) truncates.
SampleSize(total_len) ==
    IF total_len < 10
    THEN Max(1, total_len \div 2)
    ELSE Max(5, (total_len * 3) \div 10)

\* random.shuffle(all_indices); all_indices[:sample_size]: any set of
\* min(sample_size, total_len) distinct indices.
ShuffledPrefixes(total_len) ==
    {S \in SUBSET (0..(total_len - 1)) :
        Cardinality(S) = Min(SampleSize(total_len), total_len)}

\* RemainingKey, testing the position after each bit.
RemainingKey_OffByOne(key, sample_indices) ==
    LET F[k \in 0..Len(key)] ==
            IF k = 0 THEN <<>>
            ELSE IF k \notin Range(sample_indices)
                 THEN Append(F[k - 1], key[k])
                 ELSE F[k - 1]
    IN  F[Len(key)]

\* remaining_key: the bits at the positions outside the sample, in order.
RemainingKey(key, sample_indices) ==
    LET F[k \in 0..Len(key)] ==
            IF k = 0 THEN <<>>
            ELSE IF (k - 1) \notin Range(sample_indices)
                 THEN Append(F[k - 1], key[k])
                 ELSE F[k - 1]
    IN  F[Len(key)]

\* SampleWith, reading the sample bits from the front of the key.
SampleWith_BitsFromFront(key, S) ==
    LET sample_indices == SortedSeq(S)
    IN  [sampleIndices |-> sample_indices,
         sampleBits |-> [j \in 1..Len(sample_indices) |-> key[j]],
         remainingKey |-> RemainingKey(key, sample_indices)]

\* What sample_for_verification returns when the shuffle puts S in front.
SampleWith(key, S) ==
    LET sample_indices == SortedSeq(S)
    IN  [sampleIndices |-> sample_indices,
         sampleBits |-> [j \in 1..Len(sample_indices) |-> key[sample_indices[j] + 1]],
         remainingKey |-> RemainingKey(key, sample_indices)]

\* Every result sample_for_verification can return for a key.
sample_for_verification(key) == {SampleWith(key, S) : S \in ShuffledPrefixes(Len(key))}

-----------------------------------------------------------------------------
(* bob.py: sifting *)

\* measured_bits[i] raises when a matching position lies beyond the bits.
SiftRaises(alice_bases, b_bases, bits) ==
    \E i \in 1..Min(Len(alice_bases), Len(b_bases)) :
        alice_bases[i] = b_bases[i] /\ i > Len(bits)

\* SiftLoop, keeping the positions where the bases differ.
SiftLoop_KeepsMismatch(alice_bases, b_bases, bits) ==
    LET n == Min(Len(alice_bases), Len(b_bases))
        F[i \in 0..n] ==
            IF i = 0 THEN <<<<>>, <<>>>>
            ELSE IF alice_bases[i] # b_bases[i]
                 THEN <<Append(F[i - 1][1], bits[i]), Append(F[i - 1][2], i - 1)>>
                 ELSE F[i - 1]
    IN  F[n]

\* SiftLoop, stopping one position early.
SiftLoop_StopsEarly(alice_bases, b_bases, bits) ==
    LET n == Max(Min(Len(alice_bases), Len(b_bases)) - 1, 0)
        F[i \in 0..n] ==
            IF i = 0 THEN <<<<>>, <<>>>>
            ELSE IF alice_bases[i] = b_bases[i]
                 THEN <<Append(F[i - 1][1], bits[i]), Append(F[i - 1][2], i - 1)>>
                 ELSE F[i - 1]
    IN  F[n]

\* The loop over enumerate(zip(alice_bases, b_bases)):
\* <<sifted_key, matching_indices>>.
SiftLoop(alice_bases, b_bases, bits) ==
    LET n == Min(Len(alice_bases), Len(b_bases))
        F[i \in 0..n] ==
            IF i = 0 THEN <<<<>>, <<>>>>
            ELSE IF alice_bases[i] = b_bases[i]
                 THEN <<Append(F[i - 1][1], bits[i]), Append(F[i - 1][2], i - 1)>>
                 ELSE F[i - 1]
    IN  F[n]

\* Bob.sift_keys: self.sifted_key is assigned after the loop.
Bob_sift_keys(alice_bases, b_bases, bits) ==
    /\ IF SiftRaises(alice_bases, b_bases, bits)
       THEN /\ resp' = Error("Bob.sift_keys", 500, "IndexError")
            /\ UNCHANGED sifted_key
       ELSE LET r == SiftLoop(alice_bases, b_bases, bits)
            IN  /\ sifted_key' = r[1]
                /\ resp' = [op |-> "Bob.sift_keys", status |-> 200,
                            siftedKey |-> r[1], matches |-> r[2]]
    /\ UNCHANGED <<aliceVars, bob_bases, measured_bits, noise_config, req>>

\* Bob.sample_for_verification
Bob_sample_for_verification(key) ==
    /\ \E s \in sample_for_verification(key) :
            resp' = [op |-> "Bob.sample_for_verification", status |-> 200,
                     sampleIndices |-> s.sampleIndices,
                     sampleBits |-> s.sampleBits,
                     remainingKey |-> s.remainingKey]
    /\ UNCHANGED <<aliceVars, bobVars, noise_config, req>>

-----------------------------------------------------------------------------
(* app.py: generate_keys *)

\* generate_keys, without line 180 (the previous key is kept).
generate_keys_KeepsKey(length, alice_bits, alice_bases) ==
    /\ prepare_quantum_states(length, ZeroPattern(length), alice_bits, alice_bases)
    /\ shared_key' = shared_key
    /\ resp' = [op |-> "generate_keys", status |-> 200,
                aliceBits |-> alice_bits, aliceBases |-> alice_bases,
                qubitSymbols |-> [i \in 1..Max(length, 0) |->
                                    EncodeQubit(alice_bits[i], alice_bases[i])]]
    /\ UNCHANGED <<bobVars, noise_config, req>>

\* POST /api/generate_keys with the bits and bases the key source draws.
generate_keys(length, alice_bits, alice_bases) ==
    /\ prepare_quantum_states(length, ZeroPattern(length), alice_bits, alice_bases)
    /\ shared_key' = None
    /\ resp' = [op |-> "generate_keys", status |-> 200,
                aliceBits |-> alice_bits, aliceBases |-> alice_bases,
                qubitSymbols |-> [i \in 1..Max(length, 0) |->
                                    EncodeQubit(alice_bits[i], alice_bases[i])]]
    /\ UNCHANGED <<bobVars, noise_config, req>>

-----------------------------------------------------------------------------
(* app.py: compare_sample, key_status, verify_peer_sample *)

\* alice_sifted: the raw bits at the match indices below len(raw_bits).
AliceSifted(raw, matches) ==
    LET F[k \in 0..Len(matches)] ==
            IF k = 0 THEN <<>>
            ELSE IF matches[k] < Len(raw)
                 THEN Append(F[k - 1], PyAt(raw, matches[k]))
                 ELSE F[k - 1]
    IN  F[Len(matches)]

\* raw_bits[i] raises for a match index below -len(raw_bits).
AliceSiftedRaises(raw, matches) ==
    \E k \in 1..Len(matches) : matches[k] < Len(raw) /\ ~PyInRange(raw, matches[k])

\* ErrorCount, stopping at the first difference.
ErrorCount_FirstOnly(alice_sample_bits, bob_sample_bits) ==
    IF \E k \in 1..Min(Len(alice_sample_bits), Len(bob_sample_bits)) :
            alice_sample_bits[k] # bob_sample_bits[k]
    THEN 1 ELSE 0

\* The loop over zip(alice_sample_bits, bob_sample_bits).
ErrorCount(alice_sample_bits, bob_sample_bits) ==
    LET n == Min(Len(alice_sample_bits), Len(bob_sample_bits))
        F[k \in 0..n] ==
            IF k = 0 THEN 0
            ELSE IF alice_sample_bits[k] # bob_sample_bits[k]
                 THEN F[k - 1] + 1
                 ELSE F[k - 1]
    IN  F[n]

\* qber = (error_count / total) * 100 if total > 0 else 0
Qber(error_count, total) ==
    IF total > 0 THEN Ratio(error_count * 100, total) ELSE Ratio(0, 1)

\* Accepts, with a tolerance band of 50 percent.
Accepts_Tolerant(qber) == qber[1] <= 50 * qber[2]

\* The accept test of compare_sample.
Accepts(qber) == qber[1] = 0

\* AliceRemaining, keeping the sampled positions.
AliceRemaining_KeepsSample(alice_sifted, sample_indices) == alice_sifted

\* alice_remaining: alice_sifted without the sampled positions.
AliceRemaining(alice_sifted, sample_indices) ==
    RemainingKey(alice_sifted, sample_indices)

\* The response of compare_sample, as handler o answers it.
CompareResponse(o, sample_indices, bob_sample_bits, matches) ==
    IF matches = <<>>
    THEN Error(o, 400, "Missing original match indices")
    ELSE IF ~Truthy(raw_bits)
    THEN Error(o, 400, "Alice has no raw bits. Did she generate them?")
    ELSE IF AliceSiftedRaises(Get(raw_bits), matches)
    THEN Error(o, 500, "IndexError")
    ELSE LET alice_sifted == AliceSifted(Get(raw_bits), matches)
         IN  IF \E j \in 1..Len(sample_indices) :
                    ~PyInRange(alice_sifted, sample_indices[j])
             THEN Error(o, 400, "Invalid sample indices")
             ELSE LET alice_sample_bits ==
                          [j \in 1..Len(sample_indices) |->
                              PyAt(alice_sifted, sample_indices[j])]
                      error_count == ErrorCount(alice_sample_bits, bob_sample_bits)
                      qber == Qber(error_count, Len(sample_indices))
                  IN  [op |-> o, status |-> 200,
                       aliceSampleBits |-> alice_sample_bits,
                       errorCount |-> error_count,
                       qber |-> qber,
                       verified |-> Accepts(qber)]

\* The key compare_sample stores when its response r accepts.
CompareStore(r, sample_indices, matches) ==
    IF r.status = 200 /\ r.verified
    THEN Some(AliceRemaining(AliceSifted(Get(raw_bits), matches), sample_indices))
    ELSE shared_key

\* POST /api/compare_sample
compare_sample(sample_indices, bob_sample_bits, matches) ==
    LET r == CompareResponse("compare_sample", sample_indices, bob_sample_bits, matches)
    IN  /\ resp' = r
        /\ shared_key' = CompareStore(r, sample_indices, matches)
        /\ UNCHANGED <<raw_bits, bases, encoded_qubits, bobVars, noise_config, req>>

\* The sharedKey field GET /api/alice/key_status answers with.
KeyStatus == IF Truthy(shared_key) THEN shared_key ELSE None

\* GET /api/alice/key_status
get_alice_key ==
    /\ resp' = [op |-> "key_status", status |-> 200, sharedKey |-> KeyStatus]
    /\ UNCHANGED <<aliceVars, bobVars, noise_config, req>>

\* POST /api/sample_key
sample_key(key) ==
    /\ IF key = <<>>
       THEN resp' = Error("sample_key", 400, "Missing sifted key")
       ELSE \E s \in sample_for_verification(key) :
                resp' = [op |-> "sample_key", status |-> 200,
                         sampleIndices |-> s.sampleIndices,
                         sampleBits |-> s.sampleBits,
                         remainingKey |-> s.remainingKey]
    /\ UNCHANGED <<aliceVars, bobVars, noise_config, req>>

\* POST /api/verify_peer_sample, the peer being this process (loopback);
\* reachable = FALSE is the request to the peer raising.
verify_peer_sample(peer_ip, key, original_matches, reachable) ==
    IF ~(peer_ip /\ key # <<>> /\ original_matches # <<>>)
    THEN /\ resp' = Error("verify_peer_sample", 400,
                          "Missing parameters for network verification")
         /\ UNCHANGED <<aliceVars, bobVars, noise_config, req>>
    ELSE IF ~reachable
    THEN /\ resp' = Error("verify_peer_sample", 500, "requests exception")
         /\ UNCHANGED <<aliceVars, bobVars, noise_config, req>>
    ELSE \E s \in sample_for_verification(key) :
            LET r == CompareResponse("compare_sample", s.sampleIndices,
                                     s.sampleBits, original_matches)
            IN  /\ shared_key' = CompareStore(r, s.sampleIndices, original_matches)
                /\ resp' = IF r.status # 200
                           THEN Error("verify_peer_sample", 500,
                                      "Verification failed at Alice")
                           ELSE [op |-> "verify_peer_sample", status |-> 200,
                                 sampleIndices |-> s.sampleIndices,
                                 sampleBits |-> s.sampleBits,
                                 remainingKey |-> s.remainingKey,
                                 errorCount |-> r.errorCount,
                                 qber |-> r.qber,
                                 verified |-> r.verified]
                /\ UNCHANGED <<raw_bits, bases, encoded_qubits, bobVars, noise_config, req>>

-----------------------------------------------------------------------------
(* app.py: the channel pipeline; bob.py: measure_qubits *)

\* A qubit description {"bit": b, "basis": s} is the record [bit, basis].
Descriptor(b, s) == [bit |-> b, basis |-> s]

\* The elements of l at the positions K, in order.
Keep(l, K) == LET idx == SortedSeq(K) IN [j \in 1..Len(idx) |-> l[idx[j]]]

\* l[:n]
Take(l, n) == SubSeq(l, 1, Min(Max(n, 0), Len(l)))

\* The outcomes of random.random() < rate; a rate is a percentage.
Coin(rate) == IF rate <= 0 THEN {FALSE} ELSE IF rate >= 100 THEN {TRUE} ELSE BOOLEAN

\* The sets of positions at which a coin of this rate may come up true.
CoinPositions(n, rate) ==
    {K \in SUBSET (1..n) : \A i \in 1..n : (i \in K) \in Coin(rate)}

\* _apply_eve, Eve drawing eve_basis[i] for the i-th description and, where
\* it differs from the description's basis, the bit redrawn[i].
apply_eve_ResendsAll(qubit_data, eve_basis, redrawn) ==
    [i \in 1..Len(qubit_data) |-> [qubit_data[i] EXCEPT !.bit = redrawn[i]]]

apply_eve(qubit_data, eve_basis, redrawn) ==
    [i \in 1..Len(qubit_data) |->
        IF eve_basis[i] # qubit_data[i].basis
        THEN [qubit_data[i] EXCEPT !.bit = redrawn[i]]
        ELSE qubit_data[i]]

\* _apply_packet_loss: <<surviving, dropped>>, drop being the positions whose
\* draw fell below the rate.
apply_packet_loss(qubit_data, rate, drop) ==
    LET n == Len(qubit_data) IN
    IF rate <= 0
    THEN <<qubit_data, 0>>
    ELSE <<Keep(qubit_data, (1..n) \ drop), Cardinality(drop \cap (1..n))>>

\* _apply_network_noise: <<noisy, flips>>, flip being the positions whose draw
\* fell below the rate.
apply_network_noise(qubit_data, rate, flip) ==
    LET n == Len(qubit_data) IN
    IF rate <= 0
    THEN <<qubit_data, 0>>
    ELSE <<[i \in 1..n |->
                IF i \in flip
                THEN [qubit_data[i] EXCEPT !.bit = 1 - @]
                ELSE qubit_data[i]],
            Cardinality(flip \cap (1..n))>>

\* The random draws one transmission of sent can make under cfg: no draw of
\* Eve when she is inactive, redrawn[i] only where her basis differs, one loss
\* draw for each description, one flip draw for each survivor.
Draws(sent, cfg) ==
    LET n == Len(sent)
        none == [i \in 1..n |-> 0]
        eve == IF ~cfg.eve_active
               THEN {<<none, none>>}
               ELSE {e \in BitSeqsOfLen(n) \X BitSeqsOfLen(n) :
                        \A i \in 1..n : e[1][i] = sent[i].basis => e[2][i] = 0}
        survivors(drop) == IF cfg.packet_loss_rate <= 0 THEN n ELSE n - Cardinality(drop)
    IN  UNION {UNION {{[eve_basis |-> e[1], redrawn |-> e[2], drop |-> drop, flip |-> flip] :
                        flip \in CoinPositions(survivors(drop), cfg.network_noise_rate)} :
                    drop \in CoinPositions(n, cfg.packet_loss_rate)} :
               e \in eve}

\* Pipeline, flipping bits before the loss stage.
Pipeline_NoiseBeforeLoss(sent, cfg, d) ==
    LET tapped == IF cfg.eve_active THEN apply_eve(sent, d.eve_basis, d.redrawn) ELSE sent
        noisy == apply_network_noise(tapped, cfg.network_noise_rate, d.flip)
        lost == apply_packet_loss(noisy[1], cfg.packet_loss_rate, d.drop)
    IN  [qubit_data |-> lost[1], dropped |-> lost[2], flips |-> noisy[2],
         original_count |-> Len(sent)]

\* Pipeline, Eve tapping what the loss stage let through.
Pipeline_EveAfterLoss(sent, cfg, d) ==
    LET lost == apply_packet_loss(sent, cfg.packet_loss_rate, d.drop)
        tapped == IF cfg.eve_active
                  THEN apply_eve(lost[1], d.eve_basis, d.redrawn)
                  ELSE lost[1]
        noisy == apply_network_noise(tapped, cfg.network_noise_rate, d.flip)
    IN  [qubit_data |-> noisy[1], dropped |-> lost[2], flips |-> noisy[2],
         original_count |-> Len(sent)]

\* The noise pipeline of get_quantum_data and bob_measure: Eve, then packet
\* loss, then network noise.
Pipeline(sent, cfg, d) ==
    LET tapped == IF cfg.eve_active THEN apply_eve(sent, d.eve_basis, d.redrawn) ELSE sent
        lost == apply_packet_loss(tapped, cfg.packet_loss_rate, d.drop)
        noisy == apply_network_noise(lost[1], cfg.network_noise_rate, d.flip)
    IN  [qubit_data |-> noisy[1], dropped |-> lost[2], flips |-> noisy[2],
         original_count |-> Len(sent)]

\* The state each rebuilt circuit prepares.
build_circuits_from_qubit_data(qubit_data) ==
    [i \in 1..Len(qubit_data) |->
        IF qubit_data[i].basis = 0
        THEN (IF qubit_data[i].bit = 1 THEN "1" ELSE "0")
        ELSE (IF qubit_data[i].bit = 0 THEN "+" ELSE "-")]

\* MeasureOutcomes, measuring without the Hadamard gate.
MeasureOutcomes_NoHadamard(state, basis) ==
    IF state = "0" THEN {0} ELSE IF state = "1" THEN {1} ELSE Bit

\* The results one ideal shot can give for a prepared state: H before the
\* measurement when Bob's basis is 1.
MeasureOutcomes(state, basis) ==
    IF basis = 1
    THEN (IF state = "+" THEN {0} ELSE IF state = "-" THEN {1} ELSE Bit)
    ELSE (IF state = "0" THEN {0} ELSE IF state = "1" THEN {1} ELSE Bit)

\* Every pair <<bob_bases, measured_bits>> a measurement can produce.
measure_qubits(circuits) ==
    LET n == Len(circuits) IN
    {m \in BitSeqsOfLen(n) \X BitSeqsOfLen(n) :
        \A i \in 1..n : m[2][i] \in MeasureOutcomes(circuits[i], m[1][i])}

\* set_noise_config, storing every key of the body.
set_noise_config_StoresAll(data) ==
    /\ noise_config' = [key \in DOMAIN noise_config \cup DOMAIN data |->
                            IF key \in DOMAIN data THEN data[key] ELSE noise_config[key]]
    /\ resp' = [op |-> "set_noise_config", status |-> 200, noise_config |-> noise_config']
    /\ UNCHANGED <<aliceVars, bobVars, req>>

\* POST /api/set_noise_config: every known key present in the body is stored.
set_noise_config(data) ==
    /\ noise_config' = [key \in DOMAIN noise_config |->
                            IF key \in DOMAIN data THEN data[key] ELSE noise_config[key]]
    /\ resp' = [op |-> "set_noise_config", status |-> 200, noise_config |-> noise_config']
    /\ UNCHANGED <<aliceVars, bobVars, req>>

\* [{"bit": int(b), "basis": int(bs)} for b, bs in zip(raw_bits, bases)]
LocalQubitData_AllRectilinear ==
    [i \in 1..Min(Len(Get(raw_bits)), Len(Get(bases))) |->
        Descriptor(Get(raw_bits)[i], 0)]

LocalQubitData ==
    [i \in 1..Min(Len(Get(raw_bits)), Len(Get(bases))) |->
        Descriptor(Get(raw_bits)[i], Get(bases)[i])]

\* The descriptions a bob_measure request puts on the channel; <<>> when the
\* handler answers 400.
Sent(qubit_data) ==
    IF Len(qubit_data) > 0 THEN qubit_data
    ELSE IF Truthy(encoded_qubits) THEN LocalQubitData
    ELSE <<>>

\* GET /api/get_quantum_data with the draws d.
get_quantum_data(d) ==
    /\ IF ~Truthy(encoded_qubits)
       THEN resp' = Error("get_quantum_data", 404, "No keys generated yet")
       ELSE LET out == Pipeline(LocalQubitData, noise_config, d)
            IN  resp' = [op |-> "get_quantum_data", status |-> 200,
                         qubit_data |-> out.qubit_data,
                         original_count |-> out.original_count,
                         dropped |-> out.dropped,
                         flips |-> out.flips,
                         eve_active |-> noise_config.eve_active]
    /\ UNCHANGED <<aliceVars, bobVars, noise_config, req>>

\* POST /api/bob_measure with the draws d; an absent or empty qubit_data is
\* <<>>.
bob_measure(qubit_data, d) ==
    IF Len(qubit_data) = 0 /\ ~Truthy(encoded_qubits)
    THEN /\ resp' = Error("bob_measure", 400, "No qubit data received and no local state")
         /\ UNCHANGED <<aliceVars, bobVars, noise_config, req>>
    ELSE LET out == Pipeline(Sent(qubit_data), noise_config, d)
         IN  \E m \in measure_qubits(build_circuits_from_qubit_data(out.qubit_data)) :
                /\ bob_bases' = m[1]
                /\ measured_bits' = m[2]
                /\ resp' = [op |-> "bob_measure", status |-> 200,
                            bobBases |-> m[1], measuredBits |-> m[2],
                            noiseStats |-> [dropped |-> out.dropped,
                                            flips |-> out.flips,
                                            original_count |-> out.original_count]]
                /\ UNCHANGED <<aliceVars, sifted_key, noise_config, req>>

\* sift_keys, with the sifted key assigned inside the loop, so that the
\* positions before the failing one are stored.
sift_keys_StoresPartial(alice_bases, b_bases, bob_bits) ==
    /\ IF Len(alice_bases) = 0 /\ ~Truthy(bases)
       THEN /\ resp' = Error("sift_keys", 400, "Missing Alice bases and no local state")
            /\ UNCHANGED sifted_key
       ELSE IF Len(b_bases) = 0 \/ Len(bob_bits) = 0
       THEN /\ resp' = Error("sift_keys", 400, "Missing Bob data for sifting")
            /\ UNCHANGED sifted_key
       ELSE LET a == IF Len(alice_bases) > 0 THEN alice_bases ELSE Get(bases)
                min_len == Min(Len(a), Len(b_bases))
                alice_bases_trimmed == Take(a, min_len)
                bob_bases_trimmed == Take(b_bases, min_len)
                bob_bits_trimmed == Take(bob_bits, min_len)
                have == Len(bob_bits_trimmed)
            IN  IF SiftRaises(alice_bases_trimmed, bob_bases_trimmed, bob_bits_trimmed)
                THEN /\ resp' = Error("sift_keys", 500, "IndexError")
                     /\ sifted_key' = SiftLoop(Take(alice_bases_trimmed, have),
                                               Take(bob_bases_trimmed, have),
                                               bob_bits_trimmed)[1]
                ELSE LET r == SiftLoop(alice_bases_trimmed, bob_bases_trimmed,
                                       bob_bits_trimmed)
                     IN  /\ sifted_key' = r[1]
                         /\ resp' = [op |-> "sift_keys", status |-> 200,
                                     siftedKey |-> r[1], matches |-> r[2]]
    /\ UNCHANGED <<aliceVars, bob_bases, measured_bits, noise_config, req>>

\* POST /api/sift_keys; an absent or empty list is <<>>.
sift_keys(alice_bases, b_bases, bob_bits) ==
    /\ IF Len(alice_bases) = 0 /\ ~Truthy(bases)
       THEN /\ resp' = Error("sift_keys", 400, "Missing Alice bases and no local state")
            /\ UNCHANGED sifted_key
       ELSE IF Len(b_bases) = 0 \/ Len(bob_bits) = 0
       THEN /\ resp' = Error("sift_keys", 400, "Missing Bob data for sifting")
            /\ UNCHANGED sifted_key
       ELSE LET a == IF Len(alice_bases) > 0 THEN alice_bases ELSE Get(bases)
                min_len == Min(Len(a), Len(b_bases))
                alice_bases_trimmed == Take(a, min_len)
                bob_bases_trimmed == Take(b_bases, min_len)
                bob_bits_trimmed == Take(bob_bits, min_len)
            IN  IF SiftRaises(alice_bases_trimmed, bob_bases_trimmed, bob_bits_trimmed)
                THEN /\ resp' = Error("sift_keys", 500, "IndexError")
                     /\ UNCHANGED sifted_key
                ELSE LET r == SiftLoop(alice_bases_trimmed, bob_bases_trimmed,
                                       bob_bits_trimmed)
                     IN  /\ sifted_key' = r[1]
                         /\ resp' = [op |-> "sift_keys", status |-> 200,
                                     siftedKey |-> r[1], matches |-> r[2]]
    /\ UNCHANGED <<aliceVars, bob_bases, measured_bits, noise_config, req>>

-----------------------------------------------------------------------------
(* app.py: the public bases *)

PublicBases_DisclosesBits ==
    IF ~Truthy(bases) THEN Error("get_public_bases", 404, "No bases available")
    ELSE [op |-> "get_public_bases", status |-> 200, bases |-> Get(raw_bits)]

\* The answer of GET /api/public/bases in the current state.
PublicBases ==
    IF ~Truthy(bases) THEN Error("get_public_bases", 404, "No bases available")
    ELSE [op |-> "get_public_bases", status |-> 200, bases |-> Get(bases)]

\* GET /api/public/bases.
get_public_bases ==
    /\ resp' = PublicBases
    /\ UNCHANGED <<aliceVars, bobVars, noise_config, req>>

\* POST /api/fetch_peer_bases; the peer is this backend (loopback), reachable
\* tells whether the request to it gets an answer.
fetch_peer_bases(peer_ip, reachable) ==
    /\ resp' = IF peer_ip = ""
               THEN Error("fetch_peer_bases", 400, "Peer IP required")
               ELSE IF ~reachable
               THEN Error("fetch_peer_bases", 500, "ConnectionError")
               ELSE IF PublicBases.status # 200
               THEN Error("fetch_peer_bases", 500, "Failed to fetch bases from Alice")
               ELSE [op |-> "fetch_peer_bases", status |-> 200,
                     aliceBases |-> PublicBases.bases]
    /\ UNCHANGED <<aliceVars, bobVars, noise_config, req>>

\* POST /api/fetch_from_peer, the peer being this backend's own address: the
\* peer's get_quantum_data runs the pipeline with the draws d and the
\* descriptions it answers are measured as they arrive.
fetch_from_peer(peer_ip, reachable, d) ==
    IF peer_ip = ""
    THEN /\ resp' = Error("fetch_from_peer", 400, "Peer IP required")
         /\ UNCHANGED <<aliceVars, bobVars, noise_config, req>>
    ELSE IF ~reachable
    THEN /\ resp' = Error("fetch_from_peer", 500, "ConnectionError")
         /\ UNCHANGED <<aliceVars, bobVars, noise_config, req>>
    ELSE IF ~Truthy(encoded_qubits)
    THEN /\ resp' = Error("fetch_from_peer", 500, "Failed to fetch from Alice")
         /\ UNCHANGED <<aliceVars, bobVars, noise_config, req>>
    ELSE LET out == Pipeline(LocalQubitData, noise_config, d)
         IN  \E m \in measure_qubits(build_circuits_from_qubit_data(out.qubit_data)) :
                /\ bob_bases' = m[1]
                /\ measured_bits' = m[2]
                /\ resp' = [op |-> "fetch_from_peer", status |-> 200,
                            bobBases |-> m[1], measuredBits |-> m[2],
                            noiseStats |-> [dropped |-> out.dropped,
                                            flips |-> out.flips,
                                            original_count |-> out.original_count]]
                /\ UNCHANGED <<aliceVars, sifted_key, noise_config, req>>

-----------------------------------------------------------------------------
(* The state after construction: alice = Alice(), bob = Bob() *)

\* Rates are percentages: 100 stands for 1.0.
DefaultNoiseConfig ==
    [eve_active |-> FALSE,
     network_noise_rate |-> 0,
     channel_noise_rate |-> 0,
     t1_us |-> 50,
     t2_us |-> 30,
     packet_loss_rate |-> 0]

Constructed ==
    /\ raw_bits = None
    /\ bases = None
    /\ encoded_qubits = None
    /\ shared_key = None
    /\ bob_bases = <<>>
    /\ measured_bits = <<>>
    /\ sifted_key = <<>>
    /\ noise_config = DefaultNoiseConfig
    /\ stage = "Empty"
    /\ script = NoScript
    /\ threads = NoThreads

-----------------------------------------------------------------------------
(* Spec: any sequence of calls to the sender's handlers, small payloads *)

Lengths == -1..SeqLen

IndexLists == SortedLists(0, SeqLen)

Init ==
    /\ Constructed
    /\ req = NoReq
    /\ resp = NoResp

GenerateKeys ==
    \E length \in Lengths :
        \E alice_bits \in BitSeqsOfLen(Max(length, 0)),
           alice_bases \in BitSeqsOfLen(Max(length, 0)) :
            generate_keys(length, alice_bits, alice_bases) /\ UNCHANGED <<stage, script, threads>>

CompareSample ==
    \E sample_indices \in IndexLists, bob_sample_bits \in BitSeqs(SeqLen),
       matches \in IndexLists :
        compare_sample(sample_indices, bob_sample_bits, matches) /\ UNCHANGED <<stage, script, threads>>

GetAliceKey == get_alice_key /\ UNCHANGED <<stage, script, threads>>

SampleKey == \E key \in BitSeqs(SeqLen) : sample_key(key) /\ UNCHANGED <<stage, script, threads>>

VerifyPeerSample ==
    \E mode \in {<<TRUE, TRUE>>, <<TRUE, FALSE>>, <<FALSE, TRUE>>},
       key \in BitSeqs(SeqLen), original_matches \in IndexLists :
        verify_peer_sample(mode[1], key, original_matches, mode[2]) /\ UNCHANGED <<stage, script, threads>>

Next ==
    \/ GenerateKeys
    \/ CompareSample
    \/ GetAliceKey
    \/ SampleKey
    \/ VerifyPeerSample

Spec == Init /\ [][Next]_vars

-----------------------------------------------------------------------------
(* SpecVerify: one verification request served in a generated session *)

\* The payloads of compare_sample.
CompareRequests ==
    [op : {"compare_sample"},
     sampleIndices : SortedLists(-1, MaxLen),
     bobSampleBits : BitSeqs(MaxLen),
     originalMatches : SortedLists(-1, MaxLen)]

\* The payloads of verify_peer_sample.
VerifyPeerRequests ==
    [op : {"verify_peer_sample"},
     sifted_key : BitSeqs(MaxLen + 1),
     original_matches : SortedLists(0, MaxLen)]

\* A session generate_keys has left, with or without a key stored since.
InitVerify ==
    /\ \E alice_bits \in BitSeqs(MaxLen) :
        /\ raw_bits = Some(alice_bits)
        /\ bases = Some([i \in 1..Len(alice_bits) |-> 0])
        /\ encoded_qubits = Some([i \in 1..Len(alice_bits) |->
                                    EncodeQubit(alice_bits[i], 0)])
        /\ shared_key \in {None} \cup {Some(<<alice_bits[k]>>) : k \in 1..Min(Len(alice_bits), 1)}
    /\ bob_bases = <<>>
    /\ measured_bits = <<>>
    /\ sifted_key = <<>>
    /\ noise_config = DefaultNoiseConfig
    /\ stage = "Generated"
    /\ script = NoScript
    /\ threads = NoThreads
    /\ req \in CompareRequests \cup VerifyPeerRequests
    /\ resp = NoResp

ServeCompareSample ==
    /\ req.op = "compare_sample"
    /\ resp = NoResp
    /\ compare_sample(req.sampleIndices, req.bobSampleBits, req.originalMatches)
    /\ UNCHANGED <<stage, script, threads>>

ServeVerifyPeerSample ==
    /\ req.op = "verify_peer_sample"
    /\ resp = NoResp
    /\ verify_peer_sample(TRUE, req.sifted_key, req.original_matches, TRUE)
    /\ UNCHANGED <<stage, script, threads>>

NextVerify ==
    \/ ServeCompareSample
    \/ ServeVerifyPeerSample

SpecVerify == InitVerify /\ [][NextVerify]_vars

-----------------------------------------------------------------------------
(* SpecBob: one call of a method of Bob on bounded arguments *)

\* verify_sifting.py, lines 15-24
ExampleSift ==
    [op |-> "Bob.sift_keys",
     aliceBases |-> <<0, 1, 0, 1, 0>>,
     bobBases |-> <<0, 0, 1, 1, 1>>,
     bobBits |-> <<0, 1, 0, 1, 1>>]

\* Basis sequences of any two lengths; one measured bit per receiver basis,
\* or the last one missing.
SiftRequests ==
    {ExampleSift} \cup
    {[op |-> "Bob.sift_keys", aliceBases |-> a, bobBases |-> b, bobBits |-> m] :
        a \in BitSeqs(MaxBases),
        b \in BitSeqs(MaxBases),
        m \in BitSeqs(MaxBases)} 

\* Every short key, and one key of each greater length.
LongKeys == {[i \in 1..n |-> (i \div 2) % 2] : n \in (MaxSifted + 1)..MaxKeyLen}

SampleRequests ==
    [op : {"Bob.sample_for_verification"}, sifted_key : BitSeqs(MaxSifted) \cup LongKeys]

InitBob ==
    /\ Constructed
    /\ req \in {r \in SiftRequests :
                    Len(r.bobBits) \in {Len(r.bobBases), Len(r.bobBases) - 1}}
               \cup SampleRequests
    /\ resp = NoResp

CallSiftKeys ==
    /\ req.op = "Bob.sift_keys"
    /\ resp = NoResp
    /\ Bob_sift_keys(req.aliceBases, req.bobBases, req.bobBits)
    /\ UNCHANGED <<stage, script, threads>>

CallSampleForVerification ==
    /\ req.op = "Bob.sample_for_verification"
    /\ resp = NoResp
    /\ Bob_sample_for_verification(req.sifted_key)
    /\ UNCHANGED <<stage, script, threads>>

NextBob ==
    \/ CallSiftKeys
    \/ CallSampleForVerification

SpecBob == InitBob /\ [][NextBob]_vars

-----------------------------------------------------------------------------
(* SpecLife: any sequence of protocol steps on one backend, with the stage  *)
(* the session has reached recorded beside the program's state              *)

Stages == {"Empty", "Generated", "Measured", "Sifted", "Sampled", "Verified", "Rejected"}

\* The stage after a step that answered r: a new generation restarts the
\* session, every other step advances it only from the stage before it.
Advance(s, r) ==
    IF r.status # 200 THEN s
    ELSE IF r.op = "generate_keys" THEN "Generated"
    ELSE IF r.op = "bob_measure" /\ s = "Generated" THEN "Measured"
    ELSE IF r.op = "sift_keys" /\ s = "Measured" THEN "Sifted"
    ELSE IF r.op = "sample_key" /\ s = "Sifted" THEN "Sampled"
    ELSE IF r.op = "compare_sample" /\ s = "Sampled"
         THEN (IF r.verified THEN "Verified" ELSE "Rejected")
    ELSE s

LifeLengths == 0..LifeLen

LifeLists == BitSeqs(LifeLen)

LifeIndexLists == SortedLists(0, LifeLen - 1)

QubitData ==
    UNION {[1..k -> {Descriptor(b, s) : b \in Bit, s \in Bit}] : k \in 0..LifeLen}

NoiseUpdates ==
    {[eve_active |-> TRUE, packet_loss_rate |-> 50],
     [eve_active |-> FALSE, packet_loss_rate |-> 0]}

InitLife ==
    /\ Constructed
    /\ req = NoReq
    /\ resp = NoResp

LifeGenerateKeys ==
    \E length \in LifeLengths :
        \E alice_bits \in BitSeqsOfLen(length), alice_bases \in BitSeqsOfLen(length) :
            /\ generate_keys(length, alice_bits, alice_bases)
            /\ stage' = Advance(stage, resp') /\ UNCHANGED <<script, threads>>

LifeSetNoiseConfig ==
    \E data \in NoiseUpdates : set_noise_config(data) /\ UNCHANGED <<stage, script, threads>>

LifeBobMeasure ==
    \E qubit_data \in QubitData :
        \E d \in Draws(Sent(qubit_data), noise_config) :
            bob_measure(qubit_data, d) /\ stage' = Advance(stage, resp') /\ UNCHANGED <<script, threads>>

LifeSiftKeys ==
    \E alice_bases \in LifeLists, b_bases \in LifeLists, bob_bits \in LifeLists :
        sift_keys(alice_bases, b_bases, bob_bits) /\ stage' = Advance(stage, resp') /\ UNCHANGED <<script, threads>>

LifeSampleKey ==
    \E key \in LifeLists : sample_key(key) /\ stage' = Advance(stage, resp') /\ UNCHANGED <<script, threads>>

LifeCompareSample ==
    \E sample_indices \in LifeIndexLists, matches \in LifeIndexLists,
       bob_sample_bits \in LifeLists :
        /\ compare_sample(sample_indices, bob_sample_bits, matches)
        /\ stage' = Advance(stage, resp') /\ UNCHANGED <<script, threads>>

NextLife ==
    \/ LifeGenerateKeys
    \/ LifeSetNoiseConfig
    \/ LifeBobMeasure
    \/ LifeSiftKeys
    \/ LifeSampleKey
    \/ LifeCompareSample

SpecLife == InitLife /\ [][NextLife]_vars

-----------------------------------------------------------------------------
(* SpecChannel: one transmission over the channel, the draws it makes       *)
(* recorded in the request                                                  *)

\* eve_active, packet_loss_rate, network_noise_rate: each source alone (a
\* rate at one half or at one) and the sources in pairs.
ChannelConfigs ==
    {[DefaultNoiseConfig EXCEPT !.eve_active = c[1],
                                !.packet_loss_rate = c[2],
                                !.network_noise_rate = c[3]] :
        c \in {<<FALSE, 0, 0>>, <<TRUE, 0, 0>>, <<FALSE, 50, 0>>, <<FALSE, 0, 50>>,
               <<FALSE, 100, 0>>, <<FALSE, 0, 100>>, <<FALSE, 50, 50>>,
               <<TRUE, 50, 0>>, <<TRUE, 0, 50>>, <<FALSE, 50, 100>>}}

\* The configurations under which a payload of descriptions is posted.
PayloadConfigs ==
    {c \in ChannelConfigs : /\ c.network_noise_rate = 0
                            /\ c.packet_loss_rate < 100
                            /\ c.eve_active => c.packet_loss_rate = 0}

QubitPayloads ==
    UNION {[1..k -> {Descriptor(b, s) : b \in Bit, s \in Bit}] : k \in 1..ChanLen}

\* The session generate_keys leaves when it draws these bits and bases.
Generated(alice_bits, alice_bases) ==
    /\ raw_bits = Some(alice_bits)
    /\ bases = Some(alice_bases)
    /\ encoded_qubits = Some([i \in 1..Len(alice_bits) |->
                                EncodeQubit(alice_bits[i], alice_bases[i])])
    /\ shared_key = None
    /\ bob_bases = <<>>
    /\ measured_bits = <<>>
    /\ sifted_key = <<>>
    /\ stage = "Generated"
    /\ script = NoScript
    /\ threads = NoThreads

\* Ten descriptions sent with packet_loss_rate = 1.0.
ExampleBits == [i \in 1..10 |-> i % 2]

ExampleBases == [i \in 1..10 |-> (i \div 2) % 2]

ExampleLoss == [DefaultNoiseConfig EXCEPT !.packet_loss_rate = 100]

GetQuantumDataRequests(sent) ==
    {[op |-> "get_quantum_data", draws |-> d] : d \in Draws(sent, noise_config)}

BobMeasureRequests(qubit_data, sent) ==
    {[op |-> "bob_measure", qubit_data |-> qubit_data, draws |-> d] :
        d \in Draws(sent, noise_config)}

ApplyEveRequests ==
    UNION {[op : {"_apply_eve"}, qubit_data : {q},
            eve_basis : BitSeqsOfLen(Len(q)), redrawn : BitSeqsOfLen(Len(q))] :
        q \in QubitPayloads}

InitChannel ==
    /\ resp = NoResp
    /\ \/ \E n \in 0..ChanLen :
            \E alice_bits \in BitSeqsOfLen(n), alice_bases \in BitSeqsOfLen(n) :
                /\ Generated(alice_bits, alice_bases)
                /\ noise_config \in ChannelConfigs
                /\ req \in GetQuantumDataRequests(LocalQubitData)
                           \cup BobMeasureRequests(<<>>, LocalQubitData)
       \/ /\ Generated(ExampleBits, ExampleBases)
          /\ noise_config = ExampleLoss
          /\ req \in GetQuantumDataRequests(LocalQubitData)
                     \cup BobMeasureRequests(<<>>, LocalQubitData)
       \/ /\ Constructed
          /\ req \in GetQuantumDataRequests(<<>>) \cup BobMeasureRequests(<<>>, <<>>)
                     \cup ApplyEveRequests
       \/ \E qubit_data \in QubitPayloads :
            /\ Generated(<<>>, <<>>)
            /\ noise_config \in PayloadConfigs
            /\ req \in BobMeasureRequests(qubit_data, qubit_data)

ServeGetQuantumData ==
    /\ req.op = "get_quantum_data"
    /\ resp = NoResp
    /\ get_quantum_data(req.draws)
    /\ UNCHANGED <<stage, script, threads>>

ServeBobMeasure ==
    /\ req.op = "bob_measure"
    /\ resp = NoResp
    /\ bob_measure(req.qubit_data, req.draws)
    /\ UNCHANGED <<stage, script, threads>>

CallApplyEve ==
    /\ req.op = "_apply_eve"
    /\ resp = NoResp
    /\ resp' = [op |-> "_apply_eve", status |-> 200,
                tapped |-> apply_eve(req.qubit_data, req.eve_basis, req.redrawn)]
    /\ UNCHANGED <<aliceVars, bobVars, noise_config, req, stage, script, threads>>

NextChannel ==
    \/ ServeGetQuantumData
    \/ ServeBobMeasure
    \/ CallApplyEve

SpecChannel == InitChannel /\ [][NextChannel]_vars

-----------------------------------------------------------------------------
(* SpecFlow: the local flow of test_flow.py against one backend; script     *)
(* holds the responses the script has read so far                           *)

FlowConfigs == {DefaultNoiseConfig, [DefaultNoiseConfig EXCEPT !.packet_loss_rate = 50]}

InitFlow ==
    /\ Constructed
    /\ req = NoReq
    /\ resp = NoResp

\* The script goes on after a response whose fields it can read.
Answered(k) == Len(script) = k /\ script[k].status = 200

FlowSetNoiseConfig ==
    /\ script = NoScript
    /\ resp = NoResp
    /\ \E cfg \in FlowConfigs :
        set_noise_config([packet_loss_rate |-> cfg.packet_loss_rate])
    /\ UNCHANGED <<stage, script, threads>>

\* requests.post(".../api/generate_keys", json={"length": ...})
FlowGenerateKeys ==
    /\ script = NoScript
    /\ \E length \in 0..FlowLen :
        \E alice_bits \in BitSeqsOfLen(length), alice_bases \in BitSeqsOfLen(length) :
            generate_keys(length, alice_bits, alice_bases)
    /\ script' = <<resp'>>
    /\ UNCHANGED <<stage, threads>>

\* requests.post(".../api/bob_measure", json={})
FlowBobMeasure ==
    /\ Len(script) = 1
    /\ \E d \in Draws(Sent(<<>>), noise_config) : bob_measure(<<>>, d)
    /\ script' = Append(script, resp')
    /\ UNCHANGED <<stage, threads>>

\* json={"bobBases": bob_data["bobBases"], "bobBits": bob_data["measuredBits"],
\*       "aliceBases": []}
FlowSiftKeys ==
    /\ Answered(2)
    /\ sift_keys(<<>>, script[2].bobBases, script[2].measuredBits)
    /\ script' = Append(script, resp')
    /\ UNCHANGED <<stage, threads>>

\* json={"siftedKey": sift_data["siftedKey"]}
FlowSampleKey ==
    /\ Answered(3)
    /\ sample_key(script[3].siftedKey)
    /\ script' = Append(script, resp')
    /\ UNCHANGED <<stage, threads>>

\* json={"sampleIndices": sample_data["sampleIndices"],
\*       "bobSampleBits": sample_data["sampleBits"],
\*       "originalMatches": sift_data["matches"]}
FlowCompareSample ==
    /\ Answered(4)
    /\ compare_sample(script[4].sampleIndices, script[4].sampleBits, script[3].matches)
    /\ script' = Append(script, resp')
    /\ UNCHANGED <<stage, threads>>

\* requests.get(".../api/alice/key_status")
FlowKeyStatus ==
    /\ Len(script) = 5
    /\ get_alice_key
    /\ script' = Append(script, resp')
    /\ UNCHANGED <<stage, threads>>

NextFlow ==
    \/ FlowSetNoiseConfig
    \/ FlowGenerateKeys
    \/ FlowBobMeasure
    \/ FlowSiftKeys
    \/ FlowSampleKey
    \/ FlowCompareSample
    \/ FlowKeyStatus

SpecFlow == InitFlow /\ [][NextFlow]_vars

-----------------------------------------------------------------------------
(* SpecAlice: one generation or one basis disclosure served by a sender     *)
(* that is fresh or has generated a key                                     *)

GenLengths == -1..GenLen

\* The outcomes the random source would give, more than any request uses.
Streams == BitSeqsOfLen(GenLen)

PeerAddresses == {"", "127.0.0.1"}

AliceRequests ==
    [op : {"generate_keys"}, length : GenLengths,
     bit_stream : Streams, basis_stream : Streams]
    \cup {[op |-> "get_public_bases"]}
    \cup [op : {"fetch_peer_bases"}, peer_ip : PeerAddresses, reachable : BOOLEAN]

InitAlice ==
    /\ resp = NoResp
    /\ noise_config = DefaultNoiseConfig
    /\ req \in AliceRequests
    /\ \/ Constructed
       \/ \E n \in 0..GenLen :
            \E alice_bits \in BitSeqsOfLen(n), alice_bases \in BitSeqsOfLen(n) :
                Generated(alice_bits, alice_bases)

ServeGenerateKeys ==
    /\ req.op = "generate_keys"
    /\ resp = NoResp
    /\ generate_keys(req.length, Choices(req.length, req.bit_stream),
                     Choices(req.length, req.basis_stream))
    /\ UNCHANGED <<stage, script, threads>>

ServeGetPublicBases ==
    /\ req.op = "get_public_bases"
    /\ resp = NoResp
    /\ get_public_bases
    /\ UNCHANGED <<stage, script, threads>>

ServeFetchPeerBases ==
    /\ req.op = "fetch_peer_bases"
    /\ resp = NoResp
    /\ fetch_peer_bases(req.peer_ip, req.reachable)
    /\ UNCHANGED <<stage, script, threads>>

NextAlice == ServeGenerateKeys \/ ServeGetPublicBases \/ ServeFetchPeerBases

SpecAlice == InitAlice /\ [][NextAlice]_vars

-----------------------------------------------------------------------------
(* SpecConfig: two requests in a row to one backend, fresh or holding a     *)
(* key; script keeps each request's operation, its configuration body and  *)
(* its answer                                                               *)

\* Bodies of set_noise_config: known keys, rates inside and outside [0, 1],
\* a key the configuration does not have, and the empty body.
ConfigUpdates ==
    {<<>>,
     [eve_active |-> TRUE],
     [packet_loss_rate |-> 50],
     [packet_loss_rate |-> 100, network_noise_rate |-> 50],
     [packet_loss_rate |-> 150],
     [network_noise_rate |-> -10],
     [channel_noise_rate |-> 120],
     [t1_us |-> 80, t2_us |-> 40],
     [colour |-> 7],
     [eve_active |-> TRUE, channel_noise_rate |-> 10, colour |-> 7]}

CfgLists == BitSeqs(CfgLen)

CfgIndexLists == SortedLists(0, CfgLen - 1)

CfgPayloads ==
    UNION {[1..k -> {Descriptor(b, s) : b \in Bit, s \in Bit}] : k \in 0..CfgLen}

InitConfig ==
    /\ req = NoReq
    /\ resp = NoResp
    /\ noise_config = DefaultNoiseConfig
    /\ Constructed \/ Generated(<<1>>, <<0>>)

\* The entry a request leaves in script.
Logged(data) == Append(script, [op |-> resp'.op, data |-> data, answer |-> resp'])

CfgSetNoiseConfig ==
    /\ Len(script) < 2
    /\ \E data \in ConfigUpdates :
            set_noise_config(data) /\ script' = Logged(data)
    /\ UNCHANGED <<stage, threads>>

CfgGenerateKeys ==
    /\ Len(script) < 2
    /\ \E length \in 0..CfgLen :
        \E alice_bits \in BitSeqsOfLen(length), alice_bases \in BitSeqsOfLen(length) :
            generate_keys(length, alice_bits, alice_bases)
    /\ script' = Logged(<<>>)
    /\ UNCHANGED <<stage, threads>>

CfgGetQuantumData ==
    /\ Len(script) < 2
    /\ \E d \in Draws(Sent(<<>>), noise_config) : get_quantum_data(d)
    /\ script' = Logged(<<>>)
    /\ UNCHANGED <<stage, threads>>

CfgBobMeasure ==
    /\ Len(script) < 2
    /\ \E qubit_data \in CfgPayloads :
        \E d \in Draws(Sent(qubit_data), noise_config) : bob_measure(qubit_data, d)
    /\ script' = Logged(<<>>)
    /\ UNCHANGED <<stage, threads>>

CfgSiftKeys ==
    /\ Len(script) < 2
    /\ \E alice_bases \in CfgLists, b_bases \in CfgLists, bob_bits \in CfgLists :
            sift_keys(alice_bases, b_bases, bob_bits)
    /\ script' = Logged(<<>>)
    /\ UNCHANGED <<stage, threads>>

CfgSampleKey ==
    /\ Len(script) < 2
    /\ \E key \in CfgLists : sample_key(key)
    /\ script' = Logged(<<>>)
    /\ UNCHANGED <<stage, threads>>

CfgCompareSample ==
    /\ Len(script) < 2
    /\ \E sample_indices \in CfgIndexLists, matches \in CfgIndexLists,
          bob_sample_bits \in CfgLists :
            compare_sample(sample_indices, bob_sample_bits, matches)
    /\ script' = Logged(<<>>)
    /\ UNCHANGED <<stage, threads>>

CfgGetAliceKey ==
    /\ Len(script) < 2
    /\ get_alice_key
    /\ script' = Logged(<<>>)
    /\ UNCHANGED <<stage, threads>>

NextConfig ==
    \/ CfgSetNoiseConfig
    \/ CfgGenerateKeys
    \/ CfgGetQuantumData
    \/ CfgBobMeasure
    \/ CfgSiftKeys
    \/ CfgSampleKey
    \/ CfgCompareSample
    \/ CfgGetAliceKey

SpecConfig == InitConfig /\ [][NextConfig]_vars

-----------------------------------------------------------------------------
(* SpecBody: one request whose JSON body may lack any of its fields, served *)
(* by a backend that is fresh or holds a generated key                      *)

\* data.get(key, default); a handler that gives no default gets None, which
\* it tests with `not`, as it does the empty list.
Field(data, key, default) == IF key \in DOMAIN data THEN data[key] ELSE default

\* The bodies that carry any subset of the fields, each with one of its values.
Bodies(fields) ==
    UNION {{f \in [K -> UNION {fields[k] : k \in K}] : \A k \in K : f[k] \in fields[k]} :
            K \in SUBSET DOMAIN fields}

BodyIndexLists == SortedLists(0, BodyLen - 1)

BodyPayloads ==
    UNION {[1..k -> {Descriptor(b, s) : b \in Bit, s \in Bit}] : k \in 0..BodyLen}

CompareBodies ==
    Bodies([sampleIndices |-> BodyIndexLists,
            bobSampleBits |-> BitSeqs(BodyLen),
            originalMatches |-> BodyIndexLists])

SiftBodies ==
    Bodies([aliceBases |-> BitSeqs(BodyLen),
            bobBases |-> BitSeqs(BodyLen),
            bobBits |-> BitSeqs(BodyLen)])

MeasureBodies == Bodies([qubit_data |-> BodyPayloads])

\* The bodies of generate_keys carry their length.
GenerateBodies == [length : (-1)..BodyLen]

SampleBodies == Bodies([siftedKey |-> BitSeqs(BodyLen)])

BodyRequests ==
    [op : {"compare_sample"}, data : CompareBodies]
    \cup [op : {"sift_keys"}, data : SiftBodies]
    \cup [op : {"bob_measure"}, data : MeasureBodies]
    \cup [op : {"generate_keys"}, data : GenerateBodies,
          bit_stream : BitSeqsOfLen(BodyLen), basis_stream : BitSeqsOfLen(BodyLen)]
    \cup [op : {"sample_key"}, data : SampleBodies]

InitBody ==
    /\ resp = NoResp
    /\ noise_config = DefaultNoiseConfig
    /\ req \in BodyRequests
    /\ \/ Constructed
       \/ \E n \in 1..BodyLen :
            \E alice_bits \in BitSeqsOfLen(n), alice_bases \in BitSeqsOfLen(n) :
                Generated(alice_bits, alice_bases)

ServeCompareBody ==
    /\ req.op = "compare_sample"
    /\ resp = NoResp
    /\ compare_sample(Field(req.data, "sampleIndices", <<>>),
                      Field(req.data, "bobSampleBits", <<>>),
                      Field(req.data, "originalMatches", <<>>))
    /\ UNCHANGED <<stage, script, threads>>

ServeSiftBody ==
    /\ req.op = "sift_keys"
    /\ resp = NoResp
    /\ sift_keys(Field(req.data, "aliceBases", <<>>),
                 Field(req.data, "bobBases", <<>>),
                 Field(req.data, "bobBits", <<>>))
    /\ UNCHANGED <<stage, script, threads>>

ServeMeasureBody ==
    /\ req.op = "bob_measure"
    /\ resp = NoResp
    /\ LET qubit_data == Field(req.data, "qubit_data", <<>>)
       IN  \E d \in Draws(Sent(qubit_data), noise_config) : bob_measure(qubit_data, d)
    /\ UNCHANGED <<stage, script, threads>>

ServeGenerateBody ==
    /\ req.op = "generate_keys"
    /\ resp = NoResp
    /\ generate_keys(req.data.length, Choices(req.data.length, req.bit_stream),
                     Choices(req.data.length, req.basis_stream))
    /\ UNCHANGED <<stage, script, threads>>

ServeSampleBody ==
    /\ req.op = "sample_key"
    /\ resp = NoResp
    /\ sample_key(Field(req.data, "siftedKey", <<>>))
    /\ UNCHANGED <<stage, script, threads>>

NextBody ==
    \/ ServeCompareBody
    \/ ServeSiftBody
    \/ ServeMeasureBody
    \/ ServeGenerateBody
    \/ ServeSampleBody

SpecBody == InitBody /\ [][NextBody]_vars

-----------------------------------------------------------------------------
(* SpecThreads: one set_noise_config request and one pipeline run served by *)
(* two threads of the server, a step for each access to noise_config       *)

\* The keys of noise_config in the order the loop of set_noise_config visits.
KeyOrder ==
    <<"eve_active", "network_noise_rate", "channel_noise_rate",
      "t1_us", "t2_us", "packet_loss_rate">>

ThreadUpdates ==
    {[eve_active |-> TRUE],
     [eve_active |-> TRUE, packet_loss_rate |-> 50],
     [network_noise_rate |-> 100, packet_loss_rate |-> 100]}

IdleThreads ==
    [update |-> [pc |-> "idle", data |-> <<>>, pending |-> <<>>,
                 before |-> DefaultNoiseConfig],
     run |-> [pc |-> "idle", op |-> "none", seen |-> <<>>]]

InitThreads ==
    /\ req = NoReq
    /\ resp = NoResp
    /\ noise_config = DefaultNoiseConfig
    /\ \E n \in 1..RunLen :
        \E alice_bits \in BitSeqsOfLen(n), alice_bases \in BitSeqsOfLen(n) :
            /\ raw_bits = Some(alice_bits)
            /\ bases = Some(alice_bases)
            /\ encoded_qubits = Some([i \in 1..n |->
                                        EncodeQubit(alice_bits[i], alice_bases[i])])
    /\ shared_key = None
    /\ bob_bases = <<>>
    /\ measured_bits = <<>>
    /\ sifted_key = <<>>
    /\ stage = "Generated"
    /\ script = NoScript
    /\ threads = IdleThreads

\* set_noise_config: data = request.json, the loop is about to start.
UpdateStart ==
    /\ threads.update.pc = "idle"
    /\ \E data \in ThreadUpdates :
            threads' = [threads EXCEPT !.update =
                [pc |-> "writing", data |-> data,
                 pending |-> SelectSeq(KeyOrder, LAMBDA key : key \in DOMAIN data),
                 before |-> noise_config]]
    /\ UNCHANGED <<aliceVars, bobVars, noise_config, req, resp, stage, script>>

\* noise_config[key] = data[key] for the next key of the loop.
UpdateWrite ==
    /\ threads.update.pc = "writing"
    /\ threads.update.pending # <<>>
    /\ LET key == Head(threads.update.pending)
       IN  noise_config' = [noise_config EXCEPT ![key] = threads.update.data[key]]
    /\ threads' = [threads EXCEPT !.update.pending = Tail(@)]
    /\ UNCHANGED <<aliceVars, bobVars, req, resp, stage, script>>

\* return jsonify({"status": "ok", "noise_config": noise_config})
UpdateAnswer ==
    /\ threads.update.pc = "writing"
    /\ threads.update.pending = <<>>
    /\ resp' = [op |-> "set_noise_config", status |-> 200, noise_config |-> noise_config]
    /\ threads' = [threads EXCEPT !.update.pc = "done"]
    /\ UNCHANGED <<aliceVars, bobVars, noise_config, req, stage, script>>

\* get_quantum_data or bob_measure {} has built the descriptions to send.
RunStart ==
    /\ threads.run.pc = "idle"
    /\ Truthy(encoded_qubits)
    /\ \E op \in {"get_quantum_data", "bob_measure"} :
            threads' = [threads EXCEPT !.run = [pc |-> "eve", op |-> op, seen |-> <<>>]]
    /\ UNCHANGED <<aliceVars, bobVars, noise_config, req, resp, stage, script>>

\* threads after one noise_config.get(key) of the run, the stage the key
\* guards being applied with the value read.
AfterRead(key, next) ==
    [threads EXCEPT
        !.run.pc = next,
        !.run.seen = [k \in DOMAIN @ \cup {key} |->
                        IF k = key THEN noise_config[key] ELSE @[k]]]

\* if noise_config.get("eve_active", False): qubit_data = _apply_eve(...)
RunEve ==
    /\ threads.run.pc = "eve"
    /\ threads' = AfterRead("eve_active", "loss")
    /\ UNCHANGED <<aliceVars, bobVars, noise_config, req, resp, stage, script>>

\* _apply_packet_loss(qubit_data, noise_config.get("packet_loss_rate", 0))
RunLoss ==
    /\ threads.run.pc = "loss"
    /\ threads' = AfterRead("packet_loss_rate", "noise")
    /\ UNCHANGED <<aliceVars, bobVars, noise_config, req, resp, stage, script>>

\* _apply_network_noise(qubit_data, noise_config.get("network_noise_rate", 0))
RunNoise ==
    /\ threads.run.pc = "noise"
    /\ threads' = AfterRead("network_noise_rate", "answer")
    /\ UNCHANGED <<aliceVars, bobVars, noise_config, req, resp, stage, script>>

\* The configuration the stages of the run were applied with.
SeenConfig ==
    [key \in DOMAIN DefaultNoiseConfig |->
        IF key \in DOMAIN threads.run.seen THEN threads.run.seen[key]
        ELSE DefaultNoiseConfig[key]]

\* The run answers with what its stages produced.
RunAnswer ==
    /\ threads.run.pc = "answer"
    /\ threads' = [threads EXCEPT !.run.pc = "done"]
    /\ \E d \in Draws(LocalQubitData, SeenConfig) :
        LET out == Pipeline(LocalQubitData, SeenConfig, d) IN
        IF threads.run.op = "get_quantum_data"
        THEN /\ resp' = [op |-> "get_quantum_data", status |-> 200,
                         qubit_data |-> out.qubit_data,
                         original_count |-> out.original_count,
                         dropped |-> out.dropped,
                         flips |-> out.flips,
                         eve_active |-> noise_config.eve_active]
             /\ UNCHANGED bobVars
        ELSE \E m \in measure_qubits(build_circuits_from_qubit_data(out.qubit_data)) :
                /\ bob_bases' = m[1]
                /\ measured_bits' = m[2]
                /\ resp' = [op |-> "bob_measure", status |-> 200,
                            bobBases |-> m[1], measuredBits |-> m[2],
                            noiseStats |-> [dropped |-> out.dropped,
                                            flips |-> out.flips,
                                            original_count |-> out.original_count]]
                /\ UNCHANGED sifted_key
    /\ UNCHANGED <<aliceVars, noise_config, req, stage, script>>

NextThreads ==
    \/ UpdateStart
    \/ UpdateWrite
    \/ UpdateAnswer
    \/ RunStart
    \/ RunEve
    \/ RunLoss
    \/ RunNoise
    \/ RunAnswer

SpecThreads == InitThreads /\ [][NextThreads]_vars

-----------------------------------------------------------------------------
(* SpecRelay: a receiver that reads the stream of a generated session, either *)
(* by get_quantum_data followed by a bob_measure of the descriptions it was   *)
(* answered, or by fetch_from_peer; script keeps the answers                  *)

RelayConfigs ==
    {[DefaultNoiseConfig EXCEPT !.eve_active = c[1],
                                !.packet_loss_rate = c[2],
                                !.network_noise_rate = c[3]] :
        c \in {<<FALSE, 0, 0>>, <<TRUE, 0, 0>>, <<FALSE, 50, 0>>, <<FALSE, 0, 100>>}}

InitRelay ==
    /\ req = NoReq
    /\ resp = NoResp
    /\ noise_config \in RelayConfigs
    /\ \E n \in 1..RelayLen :
            \E alice_bits \in BitSeqsOfLen(n), alice_bases \in BitSeqsOfLen(n) :
                Generated(alice_bits, alice_bases)

RelayGetQuantumData ==
    /\ script = NoScript
    /\ \E d \in Draws(LocalQubitData, noise_config) : get_quantum_data(d)
    /\ script' = Logged(<<>>)
    /\ UNCHANGED <<stage, threads>>

\* bob_measure, its body carrying the qubit_data of the answer just read.
RelayBobMeasure ==
    /\ Len(script) = 1
    /\ script[1].op = "get_quantum_data"
    /\ script[1].answer.status = 200
    /\ LET qubit_data == script[1].answer.qubit_data
       IN  \E d \in Draws(Sent(qubit_data), noise_config) : bob_measure(qubit_data, d)
    /\ script' = Logged(<<>>)
    /\ UNCHANGED <<stage, threads>>

RelayFetchFromPeer ==
    /\ script = NoScript
    /\ \E peer_ip \in PeerAddresses, reachable \in BOOLEAN :
        \E d \in Draws(LocalQubitData, noise_config) :
            fetch_from_peer(peer_ip, reachable, d)
    /\ script' = Logged(<<>>)
    /\ UNCHANGED <<stage, threads>>

NextRelay == RelayGetQuantumData \/ RelayBobMeasure \/ RelayFetchFromPeer

SpecRelay == InitRelay /\ [][NextRelay]_vars

-----------------------------------------------------------------------------
(* Claims about verification *)

\* The sender's sifted key as the claims describe it: the raw bits at the
\* match indices inside [0, n), in the order of the match list.
SenderSiftedKey(raw, matches) ==
    LET inside == SelectSeq(matches, LAMBDA m : 0 <= m /\ m < Len(raw))
    IN  [k \in 1..Len(inside) |-> raw[inside[k] + 1]]

\* A key with the positions of a sample removed, the others in their order.
WithoutSample(key, sample_indices) ==
    LET kept == SortedSeq((0..(Len(key) - 1)) \ Range(sample_indices))
    IN  [k \in 1..Len(kept) |-> key[kept[k] + 1]]

\* verify_peer_sample has just answered with an accepted sample.
PeerSampleAccepted ==
    /\ req.op = "verify_peer_sample"
    /\ resp.op = "verify_peer_sample"
    /\ resp.status = 200
    /\ resp.verified

\* The two sifted keys have one length and agree outside the sample.
AgreeOutsideSample(a, b, sample_indices) ==
    /\ Len(a) = Len(b)
    /\ \A k \in 1..Len(a) : (k - 1) \notin Range(sample_indices) => a[k] = b[k]

\* C1 as stated: whenever the sample is accepted (the receiver's sifted key
\* having one bit per match index, all inside [0, n)), the key the sender
\* stores equals the remainingKey the receiver computed for the same
\* sampleIndices.
C1_AcceptedKeysEqual ==
    (/\ PeerSampleAccepted
     /\ Len(req.sifted_key) = Len(req.original_matches)
     /\ \A k \in 1..Len(req.original_matches) :
            req.original_matches[k] < Len(Get(raw_bits)))
    => shared_key = Some(resp.remainingKey)

\* C1 as amended: whenever the sample is accepted, the sender stores her own
\* sifted key with the sampled positions removed and the two sifted keys agree
\* at every sampled position; the stored key equals the receiver's
\* remainingKey exactly when the sifted keys have the same length and agree at
\* every position outside the sample as well.
C1_AcceptedKeyIsSenderRemainder ==
    PeerSampleAccepted =>
        LET a == SenderSiftedKey(Get(raw_bits), req.original_matches)
            b == req.sifted_key
        IN  /\ shared_key = Some(WithoutSample(a, resp.sampleIndices))
            /\ \A j \in 1..Len(resp.sampleIndices) :
                    a[resp.sampleIndices[j] + 1] = b[resp.sampleIndices[j] + 1]
            /\ (shared_key = Some(resp.remainingKey))
                    <=> AgreeOutsideSample(a, b, resp.sampleIndices)

\* An accepted sample that leaves both parties the same non-empty key.
C1_Witness ==
    /\ PeerSampleAccepted
    /\ Len(resp.sampleIndices) > 0
    /\ Len(resp.remainingKey) > 0
    /\ shared_key = Some(resp.remainingKey)

\* C2: when the receiver's non-empty sifted key is the sender's raw bits at
\* the match indices, all inside [0, n), verify_peer_sample reports
\* errorCount = 0, qber = 0 and verified, and key_status then answers with the
\* remainingKey the receiver was given.
C2_PerfectMatchSharesKey ==
    (/\ req.op = "verify_peer_sample"
     /\ resp.op = "verify_peer_sample"
     /\ req.sifted_key # <<>>
     /\ Len(req.sifted_key) = Len(req.original_matches)
     /\ \A k \in 1..Len(req.original_matches) :
            /\ req.original_matches[k] < Len(Get(raw_bits))
            /\ req.sifted_key[k] = Get(raw_bits)[req.original_matches[k] + 1])
    => /\ resp.status = 200
       /\ resp.errorCount = 0
       /\ resp.qber = <<0, 1>>
       /\ resp.verified
       /\ KeyStatus = Some(resp.remainingKey)

\* C3: a compare_sample call that counts at least one error answers
\* verified = false and leaves alice.shared_key as it was.
C3_ErrorsRejectAndStoreNothing ==
    [][(/\ resp'.op = "compare_sample"
        /\ resp'.status = 200
        /\ resp'.errorCount > 0)
       => (~resp'.verified /\ shared_key' = shared_key)]_vars

\* A rejected sample in a session that already held a key.
C3_Witness ==
    /\ resp.op = "compare_sample"
    /\ resp.status = 200
    /\ resp.errorCount > 0
    /\ Len(req.sampleIndices) > 1
    /\ ~IsNone(shared_key)

\* C4: errorCount is the number of sample positions whose disclosed bit
\* differs from the sender's sifted bit, qber is 100 * errorCount / sampleSize
\* (0 for an empty sample), and verified holds exactly when qber is 0.
C4_ErrorCountAndQber ==
    (/\ req.op = "compare_sample"
     /\ resp.op = "compare_sample"
     /\ resp.status = 200
     /\ \A k \in 1..Len(req.originalMatches) : req.originalMatches[k] >= 0
     /\ \A j \in 1..Len(req.sampleIndices) : req.sampleIndices[j] >= 0)
    => LET a == SenderSiftedKey(Get(raw_bits), req.originalMatches)
           size == Len(req.sampleIndices)
           disclosed == 1..Min(size, Len(req.bobSampleBits))
           errors == Cardinality({j \in disclosed :
                        a[req.sampleIndices[j] + 1] # req.bobSampleBits[j]})
       IN  /\ resp.errorCount = errors
           /\ IF size = 0
              THEN resp.qber = <<0, 1>>
              ELSE resp.qber[1] * size = 100 * errors * resp.qber[2]
           /\ resp.verified <=> (resp.qber[1] = 0)
           /\ resp.verified <=> (errors = 0)

\* A sample of two positions with an error at each.
C4_Witness ==
    /\ resp.op = "compare_sample"
    /\ resp.status = 200
    /\ Len(req.sampleIndices) = 2
    /\ resp.errorCount = 2
    /\ ~resp.verified

\* C5: after generate_keys the sender holds no shared key, and a session
\* without a shared key gets one only from an accepting compare_sample.
C5_GenerateClearsKey ==
    /\ [](resp.op = "generate_keys" => IsNone(shared_key))
    /\ [][(IsNone(shared_key) /\ ~IsNone(shared_key'))
          => (/\ resp'.op \in {"compare_sample", "verify_peer_sample"}
              /\ resp'.status = 200
              /\ resp'.verified)]_vars

\* A generated session without a key.
C5_Witness ==
    /\ resp.op = "generate_keys"
    /\ Truthy(raw_bits)
    /\ IsNone(shared_key)

\* C6: Verified and Rejected are terminal: once the session's comparison has
\* produced its outcome, a further compare_sample neither changes the stored
\* shared key nor reports another outcome, so that a key can be accepted after
\* a rejection only by a new generate_keys.
C6_OutcomeIsTerminal ==
    [][(stage \in {"Verified", "Rejected"} /\ resp'.op = "compare_sample")
        => /\ shared_key' = shared_key
           /\ resp'.status = 200 => resp'.verified = (stage = "Verified")]_vars

\* C7: a shared key is stored only in a session that has passed, in this
\* order, through Generated, Measured, Sifted and Sampled and was then
\* verified; a step taken out of this order does not advance the session.
C7_VerifiedOnlyInOrder == ~IsNone(shared_key) => stage = "Verified"

-----------------------------------------------------------------------------
(* Claims about sifting and sampling *)

\* Bob.sift_keys has answered a request carrying one bit per receiver basis.
Sifted ==
    /\ req.op = "Bob.sift_keys"
    /\ resp.op = "Bob.sift_keys"
    /\ Len(req.bobBits) = Len(req.bobBases)

\* C8: sift returns as matchIndices exactly the positions below the shorter
\* length where the two bases are equal, in increasing order, siftedKey[k] is
\* the receiver's bit at matchIndices[k], differing lengths are no error, and
\* the example of the specification gives ([0,1], [0,3]).
C8_SiftKeepsMatchingPositions ==
    Sifted =>
        LET n == Min(Len(req.aliceBases), Len(req.bobBases))
            equal == {i \in 0..(n - 1) : req.aliceBases[i + 1] = req.bobBases[i + 1]}
        IN  /\ resp.status = 200
            /\ Range(resp.matches) = equal
            /\ \A k \in 1..(Len(resp.matches) - 1) :
                    resp.matches[k] < resp.matches[k + 1]
            /\ Len(resp.siftedKey) = Len(resp.matches)
            /\ \A k \in 1..Len(resp.matches) :
                    resp.siftedKey[k] = req.bobBits[resp.matches[k] + 1]
            /\ sifted_key = resp.siftedKey
            /\ req = ExampleSift =>
                    resp.siftedKey = <<0, 1>> /\ resp.matches = <<0, 3>>

\* The example of the specification, sifted.
C8_Witness ==
    /\ req = ExampleSift
    /\ resp.op = "Bob.sift_keys"
    /\ resp.siftedKey = <<0, 1>>
    /\ resp.matches = <<0, 3>>

\* C9: with identical basis sequences sifting keeps every bit:
\* sift(a, a, bits) = (bits, [0, ..., len(a) - 1]).
C9_IdenticalBasesKeepAll ==
    (Sifted /\ req.aliceBases = req.bobBases)
    => /\ resp.status = 200
       /\ resp.siftedKey = req.bobBits
       /\ resp.matches = [k \in 1..Len(req.aliceBases) |-> k - 1]

\* Identical bases of the longest length, sifted.
C9_Witness ==
    /\ Sifted
    /\ req.aliceBases = req.bobBases
    /\ Len(req.aliceBases) = MaxBases
    /\ resp.status = 200
    /\ Len(resp.siftedKey) = MaxBases

\* C10: the sample and the remaining key partition the sifted key: their
\* lengths add up to its length, and the remaining key is the sifted key at
\* exactly the positions that were not sampled.
C10_SamplePartitionsKey ==
    (req.op = "Bob.sample_for_verification"
        /\ resp.op = "Bob.sample_for_verification")
    => /\ Len(resp.sampleIndices) + Len(resp.remainingKey) = Len(req.sifted_key)
       /\ Range(resp.sampleIndices) \subseteq 0..(Len(req.sifted_key) - 1)
       /\ Cardinality(Range(resp.sampleIndices)) = Len(resp.sampleIndices)
       /\ resp.remainingKey = WithoutSample(req.sifted_key, resp.sampleIndices)

\* A key of the longest length split into a sample and a remaining key.
C10_Witness ==
    /\ resp.op = "Bob.sample_for_verification"
    /\ Len(req.sifted_key) = MaxSifted
    /\ Len(resp.sampleIndices) > 0
    /\ Len(resp.remainingKey) > 0

\* Bob.sample_for_verification has answered for a key of at least one bit.
Sampled ==
    /\ req.op = "Bob.sample_for_verification"
    /\ resp.op = "Bob.sample_for_verification"
    /\ Len(req.sifted_key) >= 1

\* r is total_len * 0.3 rounded to the nearest integer (either way at a tie).
IsNearest(r, total_len) == 10 * r - 3 * total_len \in -5..5

\* C11 as stated: the number of sampled indices is max(1, len div 2) below
\* length 10 and max(5, round(len * 0.3)) from length 10 on.
C11_SampleSizeRounds ==
    Sampled =>
        LET len == Len(req.sifted_key)
            size == Len(resp.sampleIndices)
        IN  IF len < 10
            THEN size = Max(1, len \div 2)
            ELSE \E r \in 0..len : IsNearest(r, len) /\ size = Max(5, r)

\* C11 as amended: from length 10 on the number of sampled indices is
\* max(5, floor(len * 0.3)), the product truncated, not rounded.
C11_SampleSizeTruncates ==
    Sampled =>
        LET len == Len(req.sifted_key)
            size == Len(resp.sampleIndices)
        IN  IF len < 10
            THEN size = Max(1, len \div 2)
            ELSE \E f \in 0..len :
                    /\ 10 * f <= 3 * len
                    /\ 3 * len < 10 * (f + 1)
                    /\ size = Max(5, f)

\* A key whose length times 0.3 rounds up past 5 (5.7 at length 19), sampled.
C11_Witness ==
    /\ Sampled
    /\ Len(req.sifted_key) >= 10
    /\ (3 * Len(req.sifted_key)) % 10 >= 5
    /\ (3 * Len(req.sifted_key)) \div 10 >= 5
    /\ Len(resp.sampleIndices) = (3 * Len(req.sifted_key)) \div 10

\* C12: the sampled indices are pairwise distinct, inside [0, len) and
\* ascending, each sample bit is the key's bit at its index, and the remaining
\* key is the key's bits at the other positions in their original order.
C12_SampleIsSortedSelection ==
    (req.op = "Bob.sample_for_verification"
        /\ resp.op = "Bob.sample_for_verification")
    => LET key == req.sifted_key
           idx == resp.sampleIndices
           rest == SelectSeq([k \in 1..Len(key) |-> k - 1],
                             LAMBDA i : \A j \in 1..Len(idx) : idx[j] # i)
       IN  /\ \A j \in 1..Len(idx) : 0 <= idx[j] /\ idx[j] < Len(key)
           /\ \A j \in 1..(Len(idx) - 1) : idx[j] < idx[j + 1]
           /\ Len(resp.sampleBits) = Len(idx)
           /\ \A j \in 1..Len(idx) : resp.sampleBits[j] = key[idx[j] + 1]
           /\ Len(resp.remainingKey) = Len(rest)
           /\ \A k \in 1..Len(rest) : resp.remainingKey[k] = key[rest[k] + 1]

\* A sample of several positions that discloses a 0 and a 1.
C12_Witness ==
    /\ resp.op = "Bob.sample_for_verification"
    /\ Len(resp.sampleIndices) >= 2
    /\ resp.sampleIndices[1] > 0
    /\ Range(resp.sampleBits) = Bit
    /\ Len(resp.remainingKey) >= 2

-----------------------------------------------------------------------------
(* Claims about the channel *)

\* A transmission request has been answered with a result.
Transmitted ==
    /\ req.op \in {"get_quantum_data", "bob_measure"}
    /\ resp.op = req.op
    /\ resp.status = 200

\* The descriptions the request put on the channel.
ChannelInput ==
    IF req.op = "bob_measure" /\ Len(req.qubit_data) > 0
    THEN req.qubit_data
    ELSE [i \in 1..Len(Get(raw_bits)) |-> [bit |-> Get(raw_bits)[i], basis |-> Get(bases)[i]]]

\* The bit of the p-th description after Eve's stage.
TappedBit(p) ==
    IF noise_config.eve_active /\ req.draws.eve_basis[p] # ChannelInput[p].basis
    THEN req.draws.redrawn[p]
    ELSE ChannelInput[p].bit

\* The positions of the input that the loss stage lets through, ascending; its
\* draws are made one for each description Eve's stage passes on.
Survivors ==
    SortedSeq({p \in 1..Len(ChannelInput) :
                noise_config.packet_loss_rate <= 0 \/ p \notin req.draws.drop})

\* The survivors the flip stage inverts, by their rank among the survivors.
FlippedRanks ==
    {j \in 1..Len(Survivors) : noise_config.network_noise_rate > 0 /\ j \in req.draws.flip}

\* What arrives: Eve on the original descriptions, then the loss, then the
\* flips on the survivors.
Arrived ==
    LET input == ChannelInput
        at == Survivors
        flipped == FlippedRanks
    IN  [j \in 1..Len(at) |->
            [bit |-> IF j \in flipped
                     THEN 1 - TappedBit(at[j])
                     ELSE TappedBit(at[j]),
             basis |-> input[at[j]].basis]]

\* C13: in get_quantum_data and in bob_measure Eve (when active) acts on the
\* sender's original descriptions, the loss stage on what Eve passes on, and
\* the flips are applied to and counted on the survivors of the loss only.
C13_PipelineOrder ==
    Transmitted =>
        IF req.op = "get_quantum_data"
        THEN /\ resp.qubit_data = Arrived
             /\ resp.flips = Cardinality(FlippedRanks)
             /\ resp.eve_active = noise_config.eve_active
        ELSE LET arrived == Arrived
             IN  /\ Len(resp.bobBases) = Len(arrived)
                 /\ Len(resp.measuredBits) = Len(arrived)
                 /\ \A j \in 1..Len(arrived) :
                        resp.bobBases[j] = arrived[j].basis
                            => resp.measuredBits[j] = arrived[j].bit
                 /\ resp.noiseStats.flips = Cardinality(FlippedRanks)

\* Eve re-encodes the second description only and the loss drops the first.
C13_Witness ==
    /\ Transmitted
    /\ req.op = "get_quantum_data"
    /\ noise_config.eve_active
    /\ Len(ChannelInput) >= 2
    /\ req.draws.drop = {1}
    /\ req.draws.eve_basis[1] = ChannelInput[1].basis
    /\ req.draws.eve_basis[2] # ChannelInput[2].basis
    /\ resp.qubit_data[1].bit # ChannelInput[2].bit

\* The statistics a transmission reports.
Stats == IF req.op = "bob_measure" THEN resp.noiseStats ELSE resp

\* out is taken from the descriptions at the positions K, in their order,
\* with the bits of exactly flips of them inverted.
IsSubsequenceWithFlips(out, K, flips) ==
    LET at == SortedSeq(K) IN
    /\ Len(out) = Len(at)
    /\ \A j \in 1..Len(at) : out[j].basis = ChannelInput[at[j]].basis
    /\ \A j \in 1..Len(at) : out[j].bit \in Bit
    /\ Cardinality({j \in 1..Len(at) : out[j].bit # TappedBit(at[j])}) = flips

\* C14: originalCount is the input length, the output is an order-preserving
\* subsequence of the input after Eve, droppedCount is originalCount minus the
\* output length, flippedCount is the number of survivors whose bit was
\* inverted, and packetLossRate = 1.0 leaves nothing and drops everything.
C14_ExactStatistics ==
    Transmitted =>
        LET n == Len(ChannelInput)
            out_len == IF req.op = "bob_measure"
                       THEN Len(resp.bobBases)
                       ELSE Len(resp.qubit_data)
        IN  /\ Stats.original_count = n
            /\ Stats.dropped = n - out_len
            /\ Stats.flips <= out_len
            /\ req.op = "get_quantum_data" =>
                    \E K \in SUBSET (1..n) :
                        IsSubsequenceWithFlips(resp.qubit_data, K, resp.flips)
            /\ noise_config.packet_loss_rate >= 100 =>
                    out_len = 0 /\ Stats.dropped = n /\ Stats.flips = 0

\* Ten descriptions at packetLossRate = 1.0: nothing arrives, 10 dropped.
C14_Witness ==
    /\ Transmitted
    /\ req.op = "get_quantum_data"
    /\ noise_config.packet_loss_rate = 100
    /\ resp.original_count = 10
    /\ resp.dropped = 10
    /\ resp.qubit_data = <<>>

\* C16: Eve's stage keeps the number and order of the descriptions and never
\* changes a basis; a description whose basis equals Eve's drawn basis passes
\* unchanged, and one whose basis differs carries the bit Eve redrew, 0 or 1.
C16_EveKeepsBasesAndMatches ==
    /\ (req.op = "_apply_eve" /\ resp.op = "_apply_eve") =>
            /\ Len(resp.tapped) = Len(req.qubit_data)
            /\ \A i \in 1..Len(req.qubit_data) :
                    /\ resp.tapped[i].basis = req.qubit_data[i].basis
                    /\ req.eve_basis[i] = req.qubit_data[i].basis
                            => resp.tapped[i] = req.qubit_data[i]
                    /\ req.eve_basis[i] # req.qubit_data[i].basis
                            => resp.tapped[i].bit = req.redrawn[i]
    /\ (/\ Transmitted
        /\ req.op = "get_quantum_data"
        /\ noise_config.eve_active
        /\ noise_config.packet_loss_rate = 0
        /\ noise_config.network_noise_rate = 0) =>
            /\ Len(resp.qubit_data) = Len(ChannelInput)
            /\ \A i \in 1..Len(ChannelInput) :
                    /\ resp.qubit_data[i].basis = ChannelInput[i].basis
                    /\ resp.qubit_data[i].bit # ChannelInput[i].bit
                            => req.draws.eve_basis[i] # ChannelInput[i].basis

\* Eve guesses the basis of the first description and not of the second,
\* whose bit she replaces by the other one.
C16_Witness ==
    /\ req.op = "_apply_eve"
    /\ resp.op = "_apply_eve"
    /\ Len(req.qubit_data) = 2
    /\ req.eve_basis[1] = req.qubit_data[1].basis
    /\ req.redrawn[1] # req.qubit_data[1].bit
    /\ req.eve_basis[2] # req.qubit_data[2].basis
    /\ resp.tapped[2].bit # req.qubit_data[2].bit

\* bob_measure has measured on a channel without Eve, loss or noise.
MeasuredOnIdealChannel ==
    /\ Transmitted
    /\ req.op = "bob_measure"
    /\ ~noise_config.eve_active
    /\ noise_config.packet_loss_rate = 0
    /\ noise_config.network_noise_rate = 0

\* The state prepared for the bit b in the basis s.
Prepared(b, s) ==
    IF s = 0 THEN (IF b = 0 THEN "0" ELSE "1") ELSE (IF b = 0 THEN "+" ELSE "-")

\* C17: on the ideal channel measuring the state prepared for (b, s) in the
\* basis s returns b, and measuring it in the other basis can return 0 and
\* can return 1, whatever b is.
C17_SameBasisReturnsBit ==
    MeasuredOnIdealChannel =>
        /\ Len(resp.measuredBits) = Len(ChannelInput)
        /\ \A j \in 1..Len(ChannelInput) :
                LET b == ChannelInput[j].bit
                    s == ChannelInput[j].basis
                    possible == MeasureOutcomes(Prepared(b, s), resp.bobBases[j])
                IN  /\ resp.measuredBits[j] \in possible
                    /\ resp.bobBases[j] = s => possible = {b}
                    /\ resp.bobBases[j] # s => possible = Bit

\* A diagonal state measured in its basis beside a bit lost to the wrong one.
C17_Witness ==
    /\ MeasuredOnIdealChannel
    /\ Len(ChannelInput) = 2
    /\ ChannelInput[1].basis = 1
    /\ resp.bobBases[1] = 1
    /\ resp.measuredBits[1] = ChannelInput[1].bit
    /\ resp.bobBases[2] # ChannelInput[2].basis
    /\ resp.measuredBits[2] # ChannelInput[2].bit

-----------------------------------------------------------------------------
(* Claims about the local flow *)

\* C15: index alignment survives packet loss: after pipeline, measurement and
\* sift every matchIndices[k] is the raw index of the qubit whose measurement
\* gave siftedKey[k]; so with Eve off, no network noise and the ideal
\* measurement, siftedKey[k] = rawBits[matchIndices[k]] for every k.
C15_SiftAlignedAfterLoss ==
    (/\ Answered(3) \/ (Len(script) > 3 /\ script[3].status = 200)
     /\ ~noise_config.eve_active
     /\ noise_config.network_noise_rate = 0)
    => /\ Len(script[3].siftedKey) = Len(script[3].matches)
       /\ \A k \in 1..Len(script[3].matches) :
            /\ script[3].matches[k] < Len(Get(raw_bits))
            /\ script[3].siftedKey[k] = Get(raw_bits)[script[3].matches[k] + 1]

\* The flow runs on the channel without Eve, loss or noise.
IdealChannel ==
    /\ ~noise_config.eve_active
    /\ noise_config.packet_loss_rate = 0
    /\ noise_config.network_noise_rate = 0

\* C18 as stated, for the flows that generate at least one qubit: on the ideal
\* channel the local flow always ends with compare_sample answering
\* errorCount = 0 and verified, the stored shared key being the receiver's
\* remainingKey; no step of it answers an error.
C18_LocalFlowVerifies ==
    (IdealChannel /\ Len(script) >= 1 /\ Len(script[1].aliceBits) > 0) =>
        /\ \A k \in 1..Len(script) : script[k].status = 200
        /\ Len(script) >= 5 =>
                /\ script[5].errorCount = 0
                /\ script[5].verified
                /\ shared_key = Some(script[4].remainingKey)

\* C18 as amended: on the ideal channel the sifted key is the sender's raw bits
\* at the match indices; when it is not empty the flow ends with errorCount = 0
\* and verified, the stored shared key being the receiver's remainingKey; when
\* no qubit was generated or no basis matched, a step before compare_sample
\* answers an error and no shared key is stored.
C18_LocalFlowVerifiesNonEmptyKey ==
    IdealChannel =>
        /\ Len(script) >= 2 =>
                (script[2].status = 200 <=> Len(script[1].aliceBits) > 0)
        /\ Len(script) >= 3 =>
                /\ script[3].status = 200
                /\ script[3].siftedKey =
                        [k \in 1..Len(script[3].matches) |->
                            script[1].aliceBits[script[3].matches[k] + 1]]
        /\ Len(script) >= 4 =>
                (script[4].status = 200 <=> Len(script[3].siftedKey) > 0)
        /\ Len(script) >= 5 =>
                /\ script[5].status = 200
                /\ script[5].errorCount = 0
                /\ script[5].qber = <<0, 1>>
                /\ script[5].verified
                /\ shared_key = Some(script[4].remainingKey)
        /\ Len(script) < 5 => IsNone(shared_key)

\* A flow that ends verified with a key of more than one bit.
C18_Witness ==
    /\ IdealChannel
    /\ Len(script) >= 5
    /\ script[5].verified
    /\ Len(script[4].remainingKey) >= 2
    /\ shared_key = Some(script[4].remainingKey)

-----------------------------------------------------------------------------
(* Claims about generation and the public bases *)

\* C19: for every length > 0 a generation answers a bit sequence and a basis
\* sequence of exactly length elements, each 0 or 1, the first length outcomes
\* of the random source with none dropped or added; the sender's raw bits and
\* raw bases have equal length in every state.
C19_GenerateReturnsLength ==
    /\ (IsNone(raw_bits) <=> IsNone(bases))
    /\ ~IsNone(raw_bits) => Len(Get(raw_bits)) = Len(Get(bases))
    /\ (resp.op = "generate_keys" /\ req.length > 0) =>
            /\ resp.status = 200
            /\ Len(resp.aliceBits) = req.length
            /\ Len(resp.aliceBases) = req.length
            /\ \A i \in 1..req.length :
                    /\ resp.aliceBits[i] \in Bit
                    /\ resp.aliceBases[i] \in Bit
                    /\ resp.aliceBits[i] = req.bit_stream[i]
                    /\ resp.aliceBases[i] = req.basis_stream[i]
            /\ raw_bits = Some(resp.aliceBits)
            /\ bases = Some(resp.aliceBases)

\* A generation of the longest key in a session that already held a key.
C19_Witness ==
    /\ resp.op = "generate_keys"
    /\ req.length = GenLen
    /\ Len(resp.aliceBits) = GenLen
    /\ resp.aliceBits # resp.aliceBases
    /\ stage = "Generated"

\* C20: once a generation has given the sender bases, get_public_bases, and
\* fetch_peer_bases when it reaches the peer, answer exactly the sender's
\* current basis sequence, whatever the raw bits are; while the sender holds
\* no basis (none generated, or an empty sequence) both answer an error.
C20_DisclosesExactlyBases ==
    /\ resp.op = "get_public_bases" =>
            IF ~IsNone(bases) /\ Len(Get(bases)) > 0
            THEN resp.status = 200 /\ resp.bases = Get(bases)
            ELSE resp.status = 404
    /\ (resp.op = "fetch_peer_bases" /\ req.peer_ip # "" /\ req.reachable) =>
            IF ~IsNone(bases) /\ Len(Get(bases)) > 0
            THEN resp.status = 200 /\ resp.aliceBases = Get(bases)
            ELSE resp.status = 500

\* Bases that differ from the raw bits are disclosed through the peer request.
C20_Witness ==
    /\ resp.op = "fetch_peer_bases"
    /\ resp.status = 200
    /\ Len(resp.aliceBases) = GenLen
    /\ resp.aliceBases = Get(bases)
    /\ resp.aliceBases # Get(raw_bits)

\* The state the mapping of the protocol gives a bit in a basis.
StateOf(bit, basis) ==
    IF basis = 0 /\ bit = 0 THEN "0"
    ELSE IF basis = 0 /\ bit = 1 THEN "1"
    ELSE IF basis = 1 /\ bit = 0 THEN "+"
    ELSE "-"

-----------------------------------------------------------------------------
(* Claims about input errors *)

\* C21: a generate request with zero or negative length is answered with an
\* error and leaves the sender's raw bits, raw bases and shared key unchanged.
C21_RejectsNonPositiveLength ==
    [][(req.op = "generate_keys" /\ req.length <= 0 /\ resp' # resp)
        => /\ resp'.status # 200
           /\ UNCHANGED <<raw_bits, bases, shared_key>>]_vars

\* The rates a body or a configuration holds.
RateKeys == {"packet_loss_rate", "network_noise_rate", "channel_noise_rate"}

\* Every rate of the record c lies in [0, 1].
RatesWithinRange(c) == \A key \in RateKeys \cap DOMAIN c : 0 <= c[key] /\ c[key] <= 100

\* C22: a configuration update carrying a rate outside [0, 1] is answered with
\* an error, and every rate the configuration holds is always within [0, 1].
C22_RatesStayWithinRange ==
    /\ RatesWithinRange(noise_config)
    /\ \A k \in 1..Len(script) :
            (script[k].op = "set_noise_config" /\ ~RatesWithinRange(script[k].data))
                => script[k].answer.status # 200

\* C23: a compare_sample request with a sample index below 0 or not below the
\* length of the sender's sifted key is answered with the error 'Invalid
\* sample indices' and leaves the sender's shared key unchanged.
C23_RejectsOutOfRangeSample ==
    [][(/\ req.op = "compare_sample"
        /\ resp' # resp
        /\ Truthy(raw_bits)
        /\ req.originalMatches # <<>>
        /\ \A k \in 1..Len(req.originalMatches) : req.originalMatches[k] >= 0
        /\ \E j \in 1..Len(req.sampleIndices) :
                \/ req.sampleIndices[j] < 0
                \/ req.sampleIndices[j] >=
                        Len(AliceSifted(Get(raw_bits), req.originalMatches)))
        => /\ resp'.status # 200
           /\ resp'.error = "Invalid sample indices"
           /\ UNCHANGED shared_key]_vars

\* C24: a sample-verification request that lacks any of its three fields is
\* answered with an error, so with no verified = true, and leaves the
\* sender's shared key unchanged.
C24_RejectsMissingFields ==
    [][(/\ req.op = "compare_sample"
        /\ resp' # resp
        /\ DOMAIN req.data # {"sampleIndices", "bobSampleBits", "originalMatches"})
        => /\ resp'.status # 200
           /\ UNCHANGED shared_key]_vars

\* C25: a sift request whose receiver bits and receiver bases differ in
\* length is answered with an error and leaves the stored sifted key unchanged.
C25_RejectsMismatchedLengths ==
    [][(/\ req.op = "sift_keys"
        /\ resp' # resp
        /\ Len(Field(req.data, "bobBits", <<>>)) # Len(Field(req.data, "bobBases", <<>>)))
        => /\ resp'.status # 200
           /\ UNCHANGED sifted_key]_vars

-----------------------------------------------------------------------------
(* Claims about the parties' sessions *)

\* C30: bob_measure measures exactly the descriptions of its body, none for an
\* empty or absent sequence, and sift_keys sifts against exactly the sender
\* bases of its body; no receiver step writes a sender field and no sender
\* step a receiver field.
C30_ReceiverUsesPayloadOnly ==
    [][/\ (req.op = "bob_measure" /\ resp' # resp) =>
            /\ resp'.status = 200 =>
                    Len(resp'.bobBases) = Len(Field(req.data, "qubit_data", <<>>))
            /\ UNCHANGED aliceVars
       /\ (req.op = "sift_keys" /\ resp' # resp) =>
            /\ resp'.status = 200 =>
                    Len(resp'.siftedKey) <= Len(Field(req.data, "aliceBases", <<>>))
            /\ UNCHANGED aliceVars
       /\ (req.op = "compare_sample" /\ resp' # resp) => UNCHANGED bobVars]_vars

-----------------------------------------------------------------------------
(* Claims about the configuration *)

\* The request the step has just served.
Served == script'[Len(script')]

\* C29: set_noise_config gives each known key present in the body the body's
\* value and leaves every other known key as it was, no key is ever added or
\* removed, no other request changes the configuration, and a transmission
\* runs under the configuration in force when it is served.
C29_OnlyRequestedKeysChange ==
    [][/\ DOMAIN noise_config' = DOMAIN DefaultNoiseConfig
       /\ Len(script') = Len(script) + 1
       /\ IF Served.op = "set_noise_config"
          THEN /\ \A key \in DOMAIN noise_config :
                    noise_config'[key] = IF key \in DOMAIN Served.data
                                         THEN Served.data[key]
                                         ELSE noise_config[key]
               /\ Served.answer.noise_config = noise_config'
          ELSE noise_config' = noise_config
       /\ (Served.op = "get_quantum_data" /\ Served.answer.status = 200) =>
            /\ Served.answer.eve_active = noise_config.eve_active
            /\ noise_config.packet_loss_rate <= 0 => Served.answer.dropped = 0
            /\ noise_config.packet_loss_rate >= 100 =>
                    Served.answer.dropped = Served.answer.original_count]_vars

\* An update of two keys, then a transmission that runs under it; the keys
\* the body did not name keep their values.
C29_Witness ==
    /\ Len(script) = 2
    /\ script[1].op = "set_noise_config"
    /\ script[1].data = [packet_loss_rate |-> 100, network_noise_rate |-> 50]
    /\ script[2].op = "get_quantum_data"
    /\ script[2].answer.status = 200
    /\ script[2].answer.dropped = 1
    /\ noise_config.packet_loss_rate = 100
    /\ noise_config.t1_us = DefaultNoiseConfig.t1_us

-----------------------------------------------------------------------------
(* Claims about concurrent requests *)

\* The configuration before the update of the other thread.
VersionBefore ==
    IF threads.update.pc = "idle" THEN noise_config ELSE threads.update.before

\* The configuration after the update of the other thread.
VersionAfter ==
    [key \in DOMAIN VersionBefore |->
        IF key \in DOMAIN threads.update.data THEN threads.update.data[key]
        ELSE VersionBefore[key]]

\* C26: under any interleaving of set_noise_config with a pipeline run, the
\* values of eveActive, packetLossRate and networkNoiseRate the run uses all
\* come from one version of the configuration: the one before the update or
\* the one after it.
C26_RunSeesOneVersion ==
    threads.run.pc \in {"answer", "done"} =>
        \/ \A key \in DOMAIN threads.run.seen : threads.run.seen[key] = VersionBefore[key]
        \/ \A key \in DOMAIN threads.run.seen : threads.run.seen[key] = VersionAfter[key]

-----------------------------------------------------------------------------
(* Claims about the lifecycle steps *)

\* The fields a completed step writes, as its answer r reports them.
StepWritten(r) ==
    CASE r.op = "generate_keys" ->
            /\ raw_bits' = Some(r.aliceBits)
            /\ bases' = Some(r.aliceBases)
            /\ ~IsNone(encoded_qubits')
            /\ Len(Get(encoded_qubits')) = Len(r.qubitSymbols)
            /\ shared_key' = None
            /\ UNCHANGED bobVars
      [] r.op = "bob_measure" ->
            /\ bob_bases' = r.bobBases
            /\ measured_bits' = r.measuredBits
            /\ Len(bob_bases') = Len(measured_bits')
            /\ UNCHANGED <<aliceVars, sifted_key>>
      [] r.op = "sift_keys" ->
            /\ sifted_key' = r.siftedKey
            /\ Len(r.matches) = Len(r.siftedKey)
            /\ UNCHANGED <<aliceVars, bob_bases, measured_bits>>
      [] r.op = "sample_key" ->
            UNCHANGED <<aliceVars, bobVars>>
      [] r.op = "compare_sample" ->
            /\ UNCHANGED <<raw_bits, bases, encoded_qubits, bobVars>>
            /\ r.verified => ~IsNone(shared_key')
            /\ ~r.verified => UNCHANGED shared_key

\* C31: each of generate_keys, bob_measure, sift_keys, sample_key and
\* compare_sample either completes and writes all the session fields of its
\* step, or answers with an error and leaves every session field of both
\* parties as it was before the call.
C31_StepsAreAtomic ==
    [][/\ resp'.status # 200 => UNCHANGED <<aliceVars, bobVars>>
       /\ resp'.status = 200 => StepWritten(resp')]_vars

\* A sift_keys that failed inside the loop after a matching position, with
\* no sifted key stored.
C31_Witness ==
    /\ req.op = "sift_keys"
    /\ resp.op = "sift_keys"
    /\ resp.status = 500
    /\ "bobBits" \in DOMAIN req.data
    /\ "bobBases" \in DOMAIN req.data
    /\ "aliceBases" \in DOMAIN req.data
    /\ Len(req.data.aliceBases) = 2
    /\ Len(req.data.bobBases) = 2
    /\ Len(req.data.bobBits) = 1
    /\ req.data.aliceBases[1] = req.data.bobBases[1]
    /\ sifted_key = <<>>

-----------------------------------------------------------------------------
(* Claims about the relayed stream *)

\* C32: between the sender's raw sequence and the receiver's measurement the
\* stream passes through Eve, packet loss and network noise once: when the
\* descriptions answered by get_quantum_data are posted to bob_measure,
\* bob_measure drops none, flips none and measures each of them as it was
\* answered; a stream read by fetch_from_peer loses descriptions once.
C32_PipelineRunsOnce ==
    /\ (/\ Len(script) = 2
        /\ script[2].op = "bob_measure"
        /\ script[2].answer.status = 200
        /\ Len(script[1].answer.qubit_data) > 0)
       => LET fetched == script[1].answer.qubit_data
              a == script[2].answer
          IN  /\ a.noiseStats.dropped = 0
              /\ a.noiseStats.flips = 0
              /\ Len(a.measuredBits) = Len(fetched)
              /\ \A i \in 1..Min(Len(a.measuredBits), Len(fetched)) :
                    a.bobBases[i] = fetched[i].basis
                        => a.measuredBits[i] = fetched[i].bit
    /\ (/\ Len(script) = 1
        /\ script[1].op = "fetch_from_peer"
        /\ script[1].answer.status = 200)
       => LET a == script[1].answer
          IN  /\ a.noiseStats.original_count = Len(Get(raw_bits))
              /\ a.noiseStats.dropped + Len(a.measuredBits) = a.noiseStats.original_count

-----------------------------------------------------------------------------
(* Claims about the sender's sifted key *)

\* C33: in compare_sample the sender's sifted key is as long as the list
\* originalMatches it received and its k-th element is
\* rawBits[originalMatches[k]], so that a sample index that addresses a
\* position of the list is answered with the raw bit at that match index.
C33_SiftedKeyFollowsMatches ==
    (/\ req.op = "compare_sample"
     /\ resp.op = "compare_sample"
     /\ req.originalMatches # <<>>
     /\ Truthy(raw_bits)
     /\ ~AliceSiftedRaises(Get(raw_bits), req.originalMatches))
    => LET raw == Get(raw_bits)
           matches == req.originalMatches
           alice_sifted == AliceSifted(raw, matches)
       IN  /\ Len(alice_sifted) = Len(matches)
           /\ \A k \in 1..Len(matches) :
                PyInRange(raw, matches[k]) => alice_sifted[k] = PyAt(raw, matches[k])
           /\ (\A j \in 1..Len(req.sampleIndices) :
                    /\ 0 <= req.sampleIndices[j]
                    /\ req.sampleIndices[j] < Len(matches))
              => /\ resp.status = 200
                 /\ \A j \in 1..Len(req.sampleIndices) :
                        resp.aliceSampleBits[j]
                            = PyAt(raw, matches[req.sampleIndices[j] + 1])

-----------------------------------------------------------------------------
(* Claims about the stored key *)

\* The positions of key the sample indices address, an index below 0
\* counting from the end as alice_sifted[i] reads it.
SampledPositions(key, sample_indices) ==
    [j \in 1..Len(sample_indices) |->
        IF sample_indices[j] < 0 THEN sample_indices[j] + Len(key)
        ELSE sample_indices[j]]

\* C34: a shared key the sender holds was stored by an accepting
\* compare_sample, and it is the current rawBits at the match indices of that
\* call which lie below len(rawBits), without the positions the call sampled.
C34_KeyIsUnsampledRawBits ==
    [][/\ shared_key' # shared_key
          => (/\ resp'.op \in {"compare_sample", "verify_peer_sample"}
              /\ resp'.status = 200
              /\ resp'.verified)
       /\ (/\ req.op = "compare_sample"
           /\ resp'.op = "compare_sample"
           /\ resp'.status = 200
           /\ resp'.verified)
          => LET alice_sifted == AliceSifted(Get(raw_bits'), req.originalMatches)
             IN  /\ UNCHANGED raw_bits
                 /\ shared_key' = Some(WithoutSample(alice_sifted,
                                        SampledPositions(alice_sifted,
                                                         req.sampleIndices)))]_vars

====
